---- MODULE Spec2Model ----
(***************************************************************************)
(* A model of md2conf's Confluence client (md2conf/api.py, api_mappers.py, *)
(* environment.py): API generation detection, the two pagination walks,    *)
(* the legacy wire mappers, the space cache, page update, attachment       *)
(* upload and label / content-property reconciliation, each run against a  *)
(* small model of the remote service.                                      *)
(*                                                                         *)
(* Every client operation is one action.  An operation threads a "world"   *)
(* record w through the requests it sends, in program order:               *)
(*   w.remote  the service state          w.log   the requests sent so far *)
(*   w.ok      FALSE once an exception propagates (w.exc names it)         *)
(*   w.fuel    k > 0: the k-th request from now fails with an HTTP error   *)
(*             that is not the service's decision (0: no such failure)     *)
(*   w.val     the value returned by the last step                         *)
(*   w.idk, w.kid   the session's two space caches                         *)
(***************************************************************************)
EXTENDS Integers, Sequences, FiniteSets, TLC

VARIABLES
    input,              \* the caller's data for the run (arguments that stay the same across calls)
    session,            \* "none" before construction, "open" once __init__ returned, "failed" if it raised
    api_version,        \* ConfluenceSession.api_version
    api_url,            \* ConfluenceSession.api_url
    site,               \* ConfluenceSession.site (domain, base_path, space_key)
    _space_id_to_key,   \* ConfluenceSession._space_id_to_key
    _space_key_to_id,   \* ConfluenceSession._space_key_to_id
    properties,         \* ConfluenceAPI.properties ("unset" until ConfluenceConnectionProperties is built)
    remote,             \* the state of the Confluence service
    call,               \* the operation invoked last, with its arguments
    log,                \* the HTTP requests that operation sent, in order
    ret                 \* its outcome: ok / exception, and the value returned

vars == <<input, session, api_version, api_url, site, _space_id_to_key, _space_key_to_id,
          properties, remote, call, log, ret>>

sessionVars == <<session, api_version, api_url, site, properties>>
cacheVars == <<_space_id_to_key, _space_key_to_id>>

None == "None"

VERSION_1 == "rest/api"
VERSION_2 == "api/v2"

EmptyMap == [x \in {} |-> None]

Get(m, k) == IF k \in DOMAIN m THEN m[k] ELSE None

Put(m, k, v) == [x \in (DOMAIN m) \cup {k} |-> IF x = k THEN v ELSE m[x]]

Range(s) == {s[i] : i \in DOMAIN s}

Digit(d) ==
    CASE d = 0 -> "0" [] d = 1 -> "1" [] d = 2 -> "2" [] d = 3 -> "3" [] d = 4 -> "4"
      [] d = 5 -> "5" [] d = 6 -> "6" [] d = 7 -> "7" [] d = 8 -> "8" [] d = 9 -> "9"

RECURSIVE IntToStr(_)
IntToStr(n) == IF n < 10 THEN Digit(n) ELSE IntToStr(n \div 10) \o Digit(n % 10)

\* A JSON scalar is tagged with its JSON type; Python's str() of it.
JInt(n) == [t |-> "int", n |-> n]
JStr(s) == [t |-> "str", s |-> s]
str(j) == IF j.t = "int" THEN IntToStr(j.n) ELSE j.s

(***************************************************************************)
(* The world record and the transport.                                     *)
(***************************************************************************)
World(r, idk, kid, fuel) ==
    [remote |-> r, log |-> <<>>, ok |-> TRUE, exc |-> None, fuel |-> fuel, val |-> None,
     idk |-> idk, kid |-> kid]

Raise(w, e) == IF w.ok THEN [w EXCEPT !.ok = FALSE, !.exc = e, !.val = None] ELSE w

Return(w, v) == IF w.ok THEN [w EXCEPT !.val = v] ELSE w

\* "x = e; rest": the value e is computed once and named in what follows.
Bind(x, F(_)) == F(x)

Request(method, root, api, path, query, body) ==
    [method |-> method, root |-> root, api |-> api, path |-> path, query |-> query, body |-> body,
     ok |-> TRUE]

NoQuery == [x \in {} |-> None]
NoBody == None

IsWrite(r) == r.method \in {"POST", "PUT", "DELETE"}

Writes(l) == SelectSeq(l, IsWrite)

Count(l, m) == Len(SelectSeq(l, LAMBDA r : r.method = m))

(***************************************************************************)
(* URLs are kept in parsed form, so that urlparse is a projection and an   *)
(* f-string that builds a URL fills the parts it is built from.            *)
(***************************************************************************)
Url(scheme, netloc, path) == [scheme |-> scheme, netloc |-> netloc, path |-> path]

\* An absent URL (None or the empty string: both are falsy).
NoUrl == Url("", "", "")

urlparse(u) == [domain |-> u.netloc, base_path |-> u.path]

ClassicRoot(domain, base_path) == Url("https", domain, base_path)

ScopedRoot(cloud_id) == Url("https", "api.atlassian.com", "/ex/confluence/" \o cloud_id \o "/")

EndsWithSlash(s) == s \in {"/", "/wiki/", "wiki/", "/confluence/"}

StartsWithSlash(s) == s \in {"/", "/wiki/", "/wiki", "/confluence/", "/confluence"}

Falsy(s) == s = None \/ s = ""

NoSite == [domain |-> None, base_path |-> None, space_key |-> None]

(***************************************************************************)
(* environment.py: the connection properties.                              *)
(***************************************************************************)
Lower(s) ==
    CASE s = "Cloud" -> "cloud"
      [] s = "DataCenter" -> "datacenter"
      [] s = "SERVER" -> "server"
      [] s = "OnPrem" -> "onprem"
      [] OTHER -> s

_validate_deployment_type_noLower(deployment_type) ==
    IF deployment_type = None THEN [ok |-> TRUE, val |-> None]
    ELSE IF deployment_type \notin {"cloud", "datacenter", "server"}
         THEN [ok |-> FALSE, val |-> None]
         ELSE [ok |-> TRUE, val |-> deployment_type]

_validate_deployment_type(deployment_type) ==
    IF deployment_type = None THEN [ok |-> TRUE, val |-> None]
    ELSE LET deployment_type_lower == Lower(deployment_type)
         IN IF deployment_type_lower \notin {"cloud", "datacenter", "server"}
            THEN [ok |-> FALSE, val |-> None]
            ELSE [ok |-> TRUE, val |-> deployment_type_lower]

_validate_domain(domain) ==
    IF domain = None THEN TRUE
    ELSE ~(domain \in {"https://host", "host/"})

_validate_base_path_startOnly(base_path) ==
    IF base_path = None THEN TRUE
    ELSE StartsWithSlash(base_path)

_validate_base_path(base_path) ==
    IF base_path = None THEN TRUE
    ELSE StartsWithSlash(base_path) /\ EndsWithSlash(base_path)

\* os.getenv: the environment carries no CONFLUENCE_* variable, so every
\* "argument or os.getenv(...)" is the argument, or None when it is falsy.
getenv(name) == None

Or(a, b) == IF Falsy(a) THEN b ELSE a

ArgumentError == [ok |-> FALSE, exc |-> "ArgumentError", val |-> None]

ConfluenceConnectionProperties(a) ==
    LET opt_api_url == a.api_url
        opt_domain == Or(a.domain, getenv("CONFLUENCE_DOMAIN"))
        opt_base_path0 == Or(a.base_path, getenv("CONFLUENCE_PATH"))
        opt_space_key == Or(a.space_key, getenv("CONFLUENCE_SPACE_KEY"))
        opt_api_key == Or(a.api_key, getenv("CONFLUENCE_API_KEY"))
        opt_deployment_type == Or(a.deployment_type, getenv("CONFLUENCE_DEPLOYMENT_TYPE"))
        opt_base_path == IF opt_api_url = NoUrl /\ Falsy(opt_base_path0) THEN "/wiki/" ELSE opt_base_path0
        dt == _validate_deployment_type(opt_deployment_type)
    IN  IF Falsy(opt_api_key) THEN ArgumentError
        ELSE IF opt_api_url = NoUrl /\ Falsy(opt_domain) THEN ArgumentError
        ELSE IF ~_validate_domain(opt_domain) THEN ArgumentError
        ELSE IF ~_validate_base_path(opt_base_path) THEN ArgumentError
        ELSE IF ~dt.ok THEN ArgumentError
        ELSE [ok |-> TRUE, exc |-> None,
              val |-> [api_url |-> opt_api_url, domain |-> opt_domain, base_path |-> opt_base_path,
                       space_key |-> opt_space_key, api_key |-> opt_api_key,
                       deployment_type |-> dt.val]]

(***************************************************************************)
(* api_mappers.py: the legacy page mappers.  A JSON object is a function    *)
(* on the keys it has; a key that must be there and is not raises KeyError. *)
(***************************************************************************)
JNull == [t |-> "null"]
JList(l) == [t |-> "list", v |-> l]

Has(d, k) == k \in DOMAIN d

\* Python's truth value of a JSON list or null
Truthy(j) == j.t = "list" /\ j.v # <<>>

KeyError == [ok |-> FALSE, exc |-> "KeyError", val |-> None]

Mapped(v) == [ok |-> TRUE, exc |-> None, val |-> v]

\* datetime.datetime.now(): the reading of the clock, whatever it is
now == "now"

\* created_at_str.replace('Z', '+00:00')
replace_Z(t) == IF t = "2024-01-02T03:04:05Z" THEN "2024-01-02T03:04:05+00:00" ELSE t

\* datetime.fromisoformat; the except clause of the mappers turns a ValueError into now()
fromisoformat(t) == IF t = "2024-01-02T03:04:05+00:00" THEN t ELSE now

\* lines 76-79 and 147-150: history.createdBy.accountId, "unknown" when any level is missing
author_id(v1_response) ==
    LET history_dict == IF Has(v1_response, "history") THEN v1_response.history ELSE EmptyMap
        created_by_dict == IF Has(history_dict, "createdBy") THEN history_dict.createdBy ELSE EmptyMap
    IN IF Has(created_by_dict, "accountId") THEN str(created_by_dict.accountId) ELSE "unknown"

\* lines 82-87 and 153-158: createdDate, else created, else the clock
created_at(v1_response) ==
    IF Has(v1_response, "createdDate") THEN fromisoformat(replace_Z(str(v1_response.createdDate)))
    ELSE IF Has(v1_response, "created") THEN fromisoformat(replace_Z(str(v1_response.created)))
    ELSE now

map_page_v1_to_domain(v1_response) ==
    IF ~Has(v1_response, "id") \/ ~Has(v1_response, "title") \/ ~Has(v1_response, "status") THEN KeyError
    ELSE IF ~Has(v1_response, "space") \/ ~Has(v1_response.space, "id") THEN KeyError
    ELSE LET ancestors == IF Has(v1_response, "ancestors") THEN v1_response.ancestors ELSE JList(<<>>)
             body_dict == IF Has(v1_response, "body") THEN v1_response.body ELSE EmptyMap
             storage_dict == IF Has(body_dict, "storage") THEN body_dict.storage ELSE EmptyMap
             version_dict == IF Has(v1_response, "version") THEN v1_response.version ELSE EmptyMap
         IN IF Truthy(ancestors) /\ ~Has(ancestors.v[Len(ancestors.v)], "id") THEN KeyError
            ELSE Mapped([id |-> str(v1_response.id),
                         spaceId |-> str(v1_response.space.id),
                         parentId |-> IF Truthy(ancestors) THEN str(ancestors.v[Len(ancestors.v)].id) ELSE None,
                         status |-> str(v1_response.status),
                         title |-> str(v1_response.title),
                         body |-> [storage |->
                            [value |-> IF Has(storage_dict, "value") THEN str(storage_dict.value) ELSE "",
                             representation |-> IF Has(storage_dict, "representation")
                                                THEN str(storage_dict.representation) ELSE "storage"]],
                         version |-> [number |-> IF Has(version_dict, "number") THEN version_dict.number ELSE 1],
                         parentType |-> None, position |-> None,
                         authorId |-> author_id(v1_response), ownerId |-> author_id(v1_response),
                         lastOwnerId |-> None, createdAt |-> created_at(v1_response)])

map_page_properties_v1_to_domain_firstAncestor(v1_response) ==
    IF ~Has(v1_response, "id") \/ ~Has(v1_response, "title") \/ ~Has(v1_response, "status") THEN KeyError
    ELSE IF ~Has(v1_response, "space") \/ ~Has(v1_response.space, "id") THEN KeyError
    ELSE LET ancestors == IF Has(v1_response, "ancestors") THEN v1_response.ancestors ELSE JList(<<>>)
             version_dict == IF Has(v1_response, "version") THEN v1_response.version ELSE EmptyMap
         IN IF Truthy(ancestors) /\ ~Has(ancestors.v[1], "id") THEN KeyError
            ELSE Mapped([id |-> str(v1_response.id),
                         spaceId |-> str(v1_response.space.id),
                         parentId |-> IF Truthy(ancestors) THEN str(ancestors.v[1].id) ELSE None,
                         status |-> str(v1_response.status),
                         title |-> str(v1_response.title),
                         version |-> [number |-> IF Has(version_dict, "number") THEN version_dict.number ELSE 1],
                         parentType |-> None, position |-> None,
                         authorId |-> author_id(v1_response), ownerId |-> author_id(v1_response),
                         lastOwnerId |-> None, createdAt |-> created_at(v1_response)])

map_page_properties_v1_to_domain_defaultStatus(v1_response) ==
    IF ~Has(v1_response, "id") \/ ~Has(v1_response, "title") THEN KeyError
    ELSE IF ~Has(v1_response, "space") \/ ~Has(v1_response.space, "id") THEN KeyError
    ELSE LET ancestors == IF Has(v1_response, "ancestors") THEN v1_response.ancestors ELSE JList(<<>>)
             version_dict == IF Has(v1_response, "version") THEN v1_response.version ELSE EmptyMap
         IN IF Truthy(ancestors) /\ ~Has(ancestors.v[Len(ancestors.v)], "id") THEN KeyError
            ELSE Mapped([id |-> str(v1_response.id),
                         spaceId |-> str(v1_response.space.id),
                         parentId |-> IF Truthy(ancestors) THEN str(ancestors.v[Len(ancestors.v)].id) ELSE None,
                         status |-> IF Has(v1_response, "status") THEN str(v1_response.status) ELSE "current",
                         title |-> str(v1_response.title),
                         version |-> [number |-> IF Has(version_dict, "number") THEN version_dict.number ELSE 1],
                         parentType |-> None, position |-> None,
                         authorId |-> author_id(v1_response), ownerId |-> author_id(v1_response),
                         lastOwnerId |-> None, createdAt |-> created_at(v1_response)])

map_page_properties_v1_to_domain(v1_response) ==
    IF ~Has(v1_response, "id") \/ ~Has(v1_response, "title") \/ ~Has(v1_response, "status") THEN KeyError
    ELSE IF ~Has(v1_response, "space") \/ ~Has(v1_response.space, "id") THEN KeyError
    ELSE LET ancestors == IF Has(v1_response, "ancestors") THEN v1_response.ancestors ELSE JList(<<>>)
             version_dict == IF Has(v1_response, "version") THEN v1_response.version ELSE EmptyMap
         IN IF Truthy(ancestors) /\ ~Has(ancestors.v[Len(ancestors.v)], "id") THEN KeyError
            ELSE Mapped([id |-> str(v1_response.id),
                         spaceId |-> str(v1_response.space.id),
                         parentId |-> IF Truthy(ancestors) THEN str(ancestors.v[Len(ancestors.v)].id) ELSE None,
                         status |-> str(v1_response.status),
                         title |-> str(v1_response.title),
                         version |-> [number |-> IF Has(version_dict, "number") THEN version_dict.number ELSE 1],
                         parentType |-> None, position |-> None,
                         authorId |-> author_id(v1_response), ownerId |-> author_id(v1_response),
                         lastOwnerId |-> None, createdAt |-> created_at(v1_response)])

(***************************************************************************)
(* The remote service.  Serve answers one request: ok = FALSE is a non-2xx *)
(* status, which raise_for_status turns into requests' HTTPError.          *)
(*   r.v2      the service has api/v2 endpoints (Cloud) or not             *)
(*   r.base    the _links.base it reports, r.tenant / r.probe: whether the *)
(*             tenant_info endpoint and the scoped API root answer         *)
(*   r.spaces  the spaces, as records of wire id (a JSON integer) and key  *)
(***************************************************************************)
Answer(r, body) == [ok |-> TRUE, remote |-> r, body |-> body]

Refuse(r) == [ok |-> FALSE, remote |-> r, body |-> None]

SpaceJson(r, s) == [id |-> JInt(s.id), key |-> s.key, _links |-> [base |-> r.base]]

SpaceJsonV2(r, s) == [id |-> IntToStr(s.id), key |-> s.key]

SetToSeq(S) == CHOOSE q \in [1..Cardinality(S) -> S] : Range(q) = S

ServeSite(r, q) ==
    CASE q.api = "edge" ->
            IF r.tenant THEN Answer(r, [cloudId |-> "c1"]) ELSE Refuse(r)
      [] q.api = VERSION_1 /\ q.path = <<"space">> ->
            Answer(r, [results |-> IF r.spaces = {} THEN <<>>
                                   ELSE <<SpaceJson(r, CHOOSE s \in r.spaces : \A t \in r.spaces : s.id <= t.id)>>])
      [] q.api = VERSION_1 /\ Len(q.path) = 2 /\ q.path[1] = "space" ->
            IF \E s \in r.spaces : s.key = q.path[2]
            THEN Answer(r, SpaceJson(r, CHOOSE s \in r.spaces : s.key = q.path[2]))
            ELSE Refuse(r)
      [] q.api = VERSION_2 /\ q.path = <<"spaces">> ->
            IF q.root.netloc = "api.atlassian.com" /\ ~r.probe THEN Refuse(r)
            ELSE LET hit == CASE "ids" \in DOMAIN q.query -> {s \in r.spaces : IntToStr(s.id) = q.query.ids}
                              [] "keys" \in DOMAIN q.query -> {s \in r.spaces : s.key = q.query.keys}
                              [] OTHER -> r.spaces
                     all == SetToSeq({SpaceJsonV2(r, s) : s \in hit})
                 IN Answer(r, [results |-> IF "limit" \in DOMAIN q.query /\ all # <<>> THEN <<all[1]>> ELSE all,
                               _links |-> [base |-> r.base]])

\* The service reads a number out of a query string.
MaxParse == 600

StrToInt(t) == CHOOSE n \in 0..MaxParse : IntToStr(n) = t

Min(a, b) == IF a < b THEN a ELSE b

QueryInt(q, name, default) == IF name \in DOMAIN q.query THEN StrToInt(q.query[name]) ELSE default

\* A legacy listing is cut by start / limit and reports the size of the page
\* it returns; a modern listing is cut into pages of r.pagesize items, each
\* but the last with a `next` link that carries a cursor.  The link is
\* relative to the host (scheme and netloc empty), or absolute if
\* r.absoluteLinks.
NextLink(r, q, from) ==
    [scheme |-> IF r.absoluteLinks THEN "https" ELSE "", netloc |-> IF r.absoluteLinks THEN r.base.netloc ELSE "",
     base |-> "/wiki/", api |-> VERSION_2, path |-> q.path, query |-> [cursor |-> IntToStr(from)]]

PagedV1(r, q, all) ==
    LET start == QueryInt(q, "start", 0)
        lim == QueryInt(q, "limit", 200)
        page == SubSeq(all, start + 1, Min(start + lim, Len(all)))
    IN Answer(r, [results |-> page, start |-> start, limit |-> lim, size |-> Len(page)])

PagedV2(r, q, all) ==
    LET from == QueryInt(q, "cursor", 0)
        page == SubSeq(all, from + 1, Min(from + r.pagesize, Len(all)))
    IN Answer(r, [results |-> page,
                  _links |-> IF from + r.pagesize < Len(all)
                             THEN [next |-> NextLink(r, q, from + r.pagesize)]
                             ELSE [base |-> r.base]])

Map(l, F(_)) == [i \in DOMAIN l |-> F(l[i])]

\* r.labels[page]: the labels of a page as records of id, name and prefix, in
\* the order the service lists them.  A label's id belongs to the label (name
\* and prefix), whatever page carries it.
LabelId(l) == l.prefix \o ":" \o l.name

LabelJsonV1(l) == [id |-> JStr(l.id), name |-> JStr(l.name), prefix |-> JStr(l.prefix)]

\* the legacy listing of a label: r.barePrefix is whether the service leaves
\* the prefix member out of a global label
LabelWire(r, l) ==
    IF r.barePrefix /\ l.prefix = "global" THEN [id |-> JStr(l.id), name |-> JStr(l.name)]
    ELSE LabelJsonV1(l)

LabelKey(l) == [name |-> l.name, prefix |-> l.prefix]

\* POST content/{id}/label: the labels of the body that the page lacks are attached
AttachLabels(r, page, body) ==
    [r EXCEPT !.labels[page] = @ \o
        Map(SelectSeq(body, LAMBDA l : \A i \in DOMAIN r.labels[page] : LabelKey(r.labels[page][i]) # LabelKey(l)),
            LAMBDA l : [id |-> LabelId(l), name |-> l.name, prefix |-> l.prefix])]

\* DELETE content/{id}/label?name=: the name alone designates the label; the
\* service takes it for the global label of that name (r.labelDelete =
\* "global") or for every label of that name ("named"); 404 if there is none.
Designated(r, l, name) ==
    l.name = name /\ (r.labelDelete = "global" => l.prefix = "global")

ServeLabels(r, q) ==
    IF q.path[2] \notin DOMAIN r.labels THEN Refuse(r)
    ELSE CASE q.api = VERSION_1 /\ q.method = "GET" ->
                PagedV1(r, q, Map(r.labels[q.path[2]], LAMBDA l : LabelWire(r, l)))
           [] q.api = VERSION_2 /\ q.method = "GET" ->
                PagedV2(r, q, r.labels[q.path[2]])
           [] q.api = VERSION_1 /\ q.method = "POST" ->
                Answer(AttachLabels(r, q.path[2], q.body), None)
           [] q.api = VERSION_1 /\ q.method = "DELETE" ->
                IF "name" \in DOMAIN q.query
                   /\ \E i \in DOMAIN r.labels[q.path[2]] : Designated(r, r.labels[q.path[2]][i], q.query.name)
                THEN Answer([r EXCEPT !.labels[q.path[2]] =
                                SelectSeq(@, LAMBDA l : ~Designated(r, l, q.query.name))], None)
                ELSE Refuse(r)
           [] OTHER -> Refuse(r)

\* r.props[page]: the content properties of a page as records of id, key,
\* value and version number; r.nextId numbers the properties created.
PropertyJsonV1(x) ==
    [id |-> JStr(x.id), key |-> JStr(x.key), value |-> x.value, version |-> [number |-> x.version.number]]

HasProperty(r, page, field, v) == \E i \in DOMAIN r.props[page] : r.props[page][i][field] = v

TheProperty(r, page, field, v) ==
    r.props[page][CHOOSE i \in DOMAIN r.props[page] : r.props[page][i][field] = v]

PropertyWire(q, x) == IF q.api = VERSION_1 THEN PropertyJsonV1(x) ELSE x

CreateProperty(r, q) ==
    IF HasProperty(r, q.path[2], "key", q.body.key) THEN Refuse(r)
    ELSE Bind([id |-> IntToStr(r.nextId), key |-> q.body.key, value |-> q.body.value, version |-> [number |-> 1]],
              LAMBDA x : Answer([r EXCEPT !.props[q.path[2]] = Append(@, x), !.nextId = @ + 1], PropertyWire(q, x)))

DeleteProperty(r, q, field) ==
    IF ~HasProperty(r, q.path[2], field, q.path[4]) THEN Refuse(r)
    ELSE Answer([r EXCEPT !.props[q.path[2]] = SelectSeq(@, LAMBDA x : x[field] # q.path[4])], None)

\* PUT: accepted when the version submitted is the current version plus one
PutProperty(r, q, field) ==
    IF ~HasProperty(r, q.path[2], field, q.path[4]) THEN Refuse(r)
    ELSE IF q.body.version.number # TheProperty(r, q.path[2], field, q.path[4]).version.number + 1 THEN Refuse(r)
    ELSE Bind([TheProperty(r, q.path[2], field, q.path[4]) EXCEPT !.value = q.body.value,
                                                                   !.version = [number |-> q.body.version.number]],
              LAMBDA x : Answer([r EXCEPT !.props[q.path[2]] =
                                    Map(@, LAMBDA y : IF y[field] = q.path[4] THEN x ELSE y)], PropertyWire(q, x)))

ServeProperties(r, q) ==
    IF q.path[2] \notin DOMAIN r.props THEN Refuse(r)
    ELSE CASE q.api = VERSION_1 /\ q.method = "GET" /\ Len(q.path) = 3 ->
                PagedV1(r, q, Map(r.props[q.path[2]], PropertyJsonV1))
           [] q.api = VERSION_2 /\ q.method = "GET" /\ Len(q.path) = 3 ->
                PagedV2(r, q, r.props[q.path[2]])
           [] q.api = VERSION_1 /\ q.method = "POST" /\ Len(q.path) = 3 -> CreateProperty(r, q)
           [] q.api = VERSION_2 /\ q.method = "POST" /\ Len(q.path) = 3 -> CreateProperty(r, q)
           [] q.api = VERSION_1 /\ q.method = "DELETE" /\ Len(q.path) = 4 -> DeleteProperty(r, q, "key")
           [] q.api = VERSION_2 /\ q.method = "DELETE" /\ Len(q.path) = 4 -> DeleteProperty(r, q, "id")
           [] q.api = VERSION_1 /\ q.method = "PUT" /\ Len(q.path) = 4 -> PutProperty(r, q, "key")
           [] q.api = VERSION_2 /\ q.method = "PUT" /\ Len(q.path) = 4 -> PutProperty(r, q, "id")
           [] OTHER -> Refuse(r)

\* r.pages[id]: the pages, as records of title, content, version number,
\* space (wire id) and status.  A page is written when the version submitted
\* is the current version plus one; any other version is a conflict.
SpaceOf(r, page) == CHOOSE sp \in r.spaces : sp.id = page.spaceId

PageJsonV1(r, id, expand) ==
    [id |-> JStr(id), type |-> JStr("page"), status |-> JStr(r.pages[id].status),
     title |-> JStr(r.pages[id].title),
     space |-> [id |-> JInt(r.pages[id].spaceId), key |-> JStr(SpaceOf(r, r.pages[id]).key)],
     version |-> [number |-> r.pages[id].version]]
    @@ (IF r.pages[id].parentId # None
        THEN [ancestors |-> JList(<<[id |-> JStr(r.pages[id].parentId)]>>)]
        ELSE EmptyMap)
    @@ (IF expand = "body.storage,version,space"
        THEN [body |-> [storage |-> [value |-> JStr(r.pages[id].content), representation |-> JStr("storage")]]]
        ELSE EmptyMap)

PageJsonV2(r, id) ==
    [id |-> id, status |-> r.pages[id].status, title |-> r.pages[id].title,
     spaceId |-> IntToStr(r.pages[id].spaceId), parentId |-> r.pages[id].parentId,
     parentType |-> None, position |-> None, authorId |-> "u1", ownerId |-> "u1", lastOwnerId |-> None,
     createdAt |-> "2024-01-01T00:00:00Z",
     version |-> [number |-> r.pages[id].version],
     body |-> [storage |-> [value |-> r.pages[id].content, representation |-> "storage"]]]

WritePage(r, q) ==
    IF q.body.version.number # r.pages[q.path[2]].version + 1 THEN Refuse(r)
    ELSE Answer([r EXCEPT !.pages[q.path[2]] =
                    [@ EXCEPT !.title = q.body.title, !.content = q.body.body.storage.value,
                              !.version = q.body.version.number]], None)

\* POST content and POST pages/: a new page at version 1 under the id the
\* service assigns (r.nextId numbers the pages created as well); 400 if the
\* space is unknown or has a page of that title.
NewPageId(r) == IntToStr(101 + r.nextId)

TitleTaken(r, spaceId, title) ==
    \E id \in DOMAIN r.pages : r.pages[id].spaceId = spaceId /\ r.pages[id].title = title

InsertPage(r, spaceId, parentId, title, content) ==
    [r EXCEPT !.pages = Put(@, NewPageId(r),
        [title |-> title, content |-> content, version |-> 1, spaceId |-> spaceId, status |-> "current",
         parentId |-> parentId]),
              !.nextId = @ + 1]

CreatePageService(r, q) ==
    IF q.api = VERSION_1
    THEN IF ~\E sp \in r.spaces : sp.key = q.body.space.key THEN Refuse(r)
         ELSE Bind((CHOOSE sp \in r.spaces : sp.key = q.body.space.key).id, LAMBDA spaceId :
                IF TitleTaken(r, spaceId, q.body.title) THEN Refuse(r)
                ELSE Bind(InsertPage(r, spaceId,
                                     IF Has(q.body, "ancestors") THEN q.body.ancestors[1].id ELSE None,
                                     q.body.title, q.body.body.storage.value),
                          LAMBDA r1 : Answer(r1, PageJsonV1(r1, NewPageId(r), "body.storage,version,space"))))
    ELSE IF ~\E sp \in r.spaces : IntToStr(sp.id) = q.body.spaceId THEN Refuse(r)
         ELSE Bind((CHOOSE sp \in r.spaces : IntToStr(sp.id) = q.body.spaceId).id, LAMBDA spaceId :
                IF TitleTaken(r, spaceId, q.body.title) THEN Refuse(r)
                ELSE Bind(InsertPage(r, spaceId, q.body.parentId, q.body.title, q.body.body.storage.value),
                          LAMBDA r1 : Answer(r1, PageJsonV2(r1, NewPageId(r)))))

\* DELETE content/{id} and DELETE pages/{id}: without a query the page goes to
\* the trash; with purge=true (modern) or status=trashed (legacy) a page in the
\* trash is purged.  r.trashFirst: whether a purge of a page that is not in
\* the trash is refused or purges it outright.
Restrict(f, S) == [x \in S |-> f[x]]

RemovePage(r, q) ==
    IF q.query = NoQuery
    THEN IF r.pages[q.path[2]].status = "trashed" THEN Refuse(r)
         ELSE Answer([r EXCEPT !.pages[q.path[2]].status = "trashed"], None)
    ELSE IF (q.api = VERSION_2 /\ q.query = [purge |-> "true"])
            \/ (q.api = VERSION_1 /\ q.query = [status |-> "trashed"])
    THEN IF r.pages[q.path[2]].status # "trashed" /\ r.trashFirst THEN Refuse(r)
         ELSE Answer([r EXCEPT !.pages = Restrict(@, DOMAIN @ \ {q.path[2]})], None)
    ELSE Refuse(r)

\* GET content?title=...&type=page[&spaceKey=...] and GET pages?title=...[&space-id=...]:
\* the current pages of that title, of one space if the query names one
FindPages(r, q) ==
    Bind(SetToSeq({id \in DOMAIN r.pages :
                    /\ r.pages[id].title = q.query.title
                    /\ r.pages[id].status = "current"
                    /\ "spaceKey" \in DOMAIN q.query => SpaceOf(r, r.pages[id]).key = q.query.spaceKey
                    /\ "space-id" \in DOMAIN q.query => IntToStr(r.pages[id].spaceId) = q.query["space-id"]}),
         LAMBDA hit :
            Answer(r, IF q.api = VERSION_1
                      THEN [results |-> [i \in DOMAIN hit |->
                                            PageJsonV1(r, hit[i], IF "expand" \in DOMAIN q.query
                                                                  THEN q.query.expand ELSE "")],
                            size |-> Len(hit)]
                      ELSE [results |-> [i \in DOMAIN hit |-> PageJsonV2(r, hit[i])],
                            _links |-> [base |-> r.base]]))

ServePages(r, q) ==
    IF q.path[2] \notin DOMAIN r.pages THEN Refuse(r)
    ELSE CASE q.api = VERSION_1 /\ q.method = "GET" ->
                Answer(r, PageJsonV1(r, q.path[2], IF "expand" \in DOMAIN q.query THEN q.query.expand ELSE ""))
           [] q.api = VERSION_2 /\ q.method = "GET" -> Answer(r, PageJsonV2(r, q.path[2]))
           [] q.method = "PUT" -> WritePage(r, q)
           [] q.method = "DELETE" -> RemovePage(r, q)
           [] OTHER -> Refuse(r)

\* r.attachments[page]: the attachments of a page as records of id ("att"
\* and a number), title, fileSize, mediaType and version number.  The upload
\* transport keeps the bare file name of the name it is sent.
MaxId == 9

removeprefix(s, prefix) ==
    IF \E n \in 0..MaxId : s = prefix \o IntToStr(n)
    THEN IntToStr(CHOOSE n \in 0..MaxId : s = prefix \o IntToStr(n))
    ELSE s

Basename(name) == IF name = "img/b.png" THEN "b.png" ELSE name

AttachmentJsonV1(page, a) ==
    [id |-> JStr(a.id), type |-> JStr("attachment"), status |-> JStr("current"), title |-> JStr(a.title),
     metadata |-> [mediaType |-> JStr(a.mediaType)],
     extensions |-> [fileSize |-> a.fileSize, mediaType |-> JStr(a.mediaType)],
     container |-> [id |-> JStr(page)],
     version |-> [number |-> a.version],
     _links |-> [webui |-> JStr("/pages/" \o page \o "/" \o a.id), download |-> JStr("/download/" \o a.id)]]

AttachmentJsonV2(page, a) ==
    [id |-> a.id, status |-> "current", title |-> a.title, createdAt |-> "2024-01-01T00:00:00Z",
     pageId |-> page, mediaType |-> a.mediaType, mediaTypeDescription |-> None, comment |-> None,
     fileId |-> "file-" \o a.id, fileSize |-> a.fileSize,
     webuiLink |-> "/pages/" \o page \o "/" \o a.id, downloadLink |-> "/download/" \o a.id,
     version |-> [number |-> a.version]]

\* the attachment of the page that a path segment (with or without "att") names
Named(a, segment) == removeprefix(a.id, "att") = removeprefix(segment, "att")

\* POST content/{id}/child/attachment: a new attachment; 400 if the page has one of that file name
CreateAttachment(r, q) ==
    IF \E i \in DOMAIN r.attachments[q.path[2]] : r.attachments[q.path[2]][i].title = Basename(q.body.file.name)
    THEN Refuse(r)
    ELSE Bind([id |-> "att" \o IntToStr(r.nextId), title |-> Basename(q.body.file.name),
               fileSize |-> q.body.file.size, mediaType |-> q.body.file.content_type, version |-> 1],
              LAMBDA a : Answer([r EXCEPT !.attachments[q.path[2]] = Append(@, a), !.nextId = @ + 1],
                                [results |-> <<AttachmentJsonV1(q.path[2], a)>>, size |-> 1]))

\* POST content/{id}/child/attachment/{attachmentId}/data: a new version of the binary
UpdateAttachmentData(r, q) ==
    IF ~\E i \in DOMAIN r.attachments[q.path[2]] : Named(r.attachments[q.path[2]][i], q.path[5]) THEN Refuse(r)
    ELSE Bind(CHOOSE i \in DOMAIN r.attachments[q.path[2]] : Named(r.attachments[q.path[2]][i], q.path[5]),
              LAMBDA i :
                Bind([r.attachments[q.path[2]][i] EXCEPT !.title = Basename(q.body.file.name),
                                                         !.fileSize = q.body.file.size,
                                                         !.mediaType = q.body.file.content_type,
                                                         !.version = @ + 1],
                     LAMBDA a : Answer([r EXCEPT !.attachments[q.path[2]][i] = a],
                                       AttachmentJsonV1(q.path[2], a))))

\* PUT content/{id}/child/attachment/{attachmentId}: the title, at the current version plus one
UpdateAttachment(r, q) ==
    IF ~\E i \in DOMAIN r.attachments[q.path[2]] : Named(r.attachments[q.path[2]][i], q.path[5]) THEN Refuse(r)
    ELSE Bind(CHOOSE i \in DOMAIN r.attachments[q.path[2]] : Named(r.attachments[q.path[2]][i], q.path[5]),
              LAMBDA i :
                IF q.body.version.number # r.attachments[q.path[2]][i].version + 1 THEN Refuse(r)
                ELSE Bind([r.attachments[q.path[2]][i] EXCEPT !.title = q.body.title,
                                                              !.version = q.body.version.number],
                          LAMBDA a : Answer([r EXCEPT !.attachments[q.path[2]][i] = a],
                                            AttachmentJsonV1(q.path[2], a))))

ServeAttachments(r, q) ==
    IF q.path[2] \notin DOMAIN r.attachments THEN Refuse(r)
    ELSE CASE q.method = "GET" /\ Len(q.path) <= 4 ->
                Bind(SelectSeq(r.attachments[q.path[2]],
                               LAMBDA a : "filename" \in DOMAIN q.query => a.title = q.query.filename),
                     LAMBDA hit :
                        Answer(r, [results |-> IF q.api = VERSION_1
                                               THEN [i \in DOMAIN hit |-> AttachmentJsonV1(q.path[2], hit[i])]
                                               ELSE [i \in DOMAIN hit |-> AttachmentJsonV2(q.path[2], hit[i])],
                                   _links |-> [base |-> r.base]]))
           [] q.api = VERSION_1 /\ q.method = "POST" /\ Len(q.path) = 4 -> CreateAttachment(r, q)
           [] q.api = VERSION_1 /\ q.method = "POST" /\ Len(q.path) = 6 /\ q.path[6] = "data" ->
                UpdateAttachmentData(r, q)
           [] q.api = VERSION_1 /\ q.method = "PUT" /\ Len(q.path) = 5 -> UpdateAttachment(r, q)
           [] OTHER -> Refuse(r)

Serve(r, q) ==
    IF q.api = VERSION_2 /\ ~r.v2 THEN Refuse(r)
    ELSE CASE q.api = "edge" \/ q.path[1] \in {"space", "spaces"} -> ServeSite(r, q)
           [] Len(q.path) = 1 /\ q.method = "POST" /\ q.api = VERSION_1 /\ q.path[1] = "content" ->
                CreatePageService(r, q)
           [] Len(q.path) = 1 /\ q.method = "POST" /\ q.api = VERSION_2 /\ q.path[1] = "pages" ->
                CreatePageService(r, q)
           [] Len(q.path) = 1 /\ q.method = "GET" /\ q.api = VERSION_1 /\ q.path[1] = "content"
                /\ "title" \in DOMAIN q.query -> FindPages(r, q)
           [] Len(q.path) = 1 /\ q.method = "GET" /\ q.api = VERSION_2 /\ q.path[1] = "pages"
                /\ "title" \in DOMAIN q.query -> FindPages(r, q)
           [] Len(q.path) = 2 /\ q.api = VERSION_1 /\ q.path[1] = "content" -> ServePages(r, q)
           [] Len(q.path) = 2 /\ q.api = VERSION_2 /\ q.path[1] = "pages" -> ServePages(r, q)
           [] Len(q.path) = 3 /\ q.api = VERSION_1 /\ q.path[1] = "content" /\ q.path[3] = "label" -> ServeLabels(r, q)
           [] Len(q.path) = 3 /\ q.api = VERSION_2 /\ q.path[1] = "pages" /\ q.path[3] = "labels" -> ServeLabels(r, q)
           [] Len(q.path) >= 4 /\ q.api = VERSION_1 /\ q.path[1] = "content" /\ q.path[3] = "child"
                /\ q.path[4] = "attachment" -> ServeAttachments(r, q)
           [] Len(q.path) = 3 /\ q.api = VERSION_2 /\ q.path[1] = "pages" /\ q.path[3] = "attachments" ->
                ServeAttachments(r, q)
           [] Len(q.path) >= 3 /\ q.api = VERSION_1 /\ q.path[1] = "content" /\ q.path[3] = "property" ->
                ServeProperties(r, q)
           [] Len(q.path) >= 3 /\ q.api = VERSION_2 /\ q.path[1] = "pages" /\ q.path[3] = "properties" ->
                ServeProperties(r, q)
           [] OTHER -> Refuse(r)

\* the hosts that answer; a request to any other authority fails to connect
Hosts == {"host", "gateway", "intranet", "api.atlassian.com"}

Send(w, q) ==
    IF ~w.ok THEN w
    ELSE IF w.fuel = 1
    THEN [w EXCEPT !.log = Append(@, [q EXCEPT !.ok = FALSE]), !.ok = FALSE, !.exc = "HTTPError",
                   !.fuel = 0, !.val = None]
    ELSE IF q.root.netloc \notin Hosts
    THEN [w EXCEPT !.log = Append(@, [q EXCEPT !.ok = FALSE]), !.ok = FALSE, !.exc = "ConnectionError",
                   !.val = None]
    ELSE Bind(Serve(w.remote, q), LAMBDA a :
            [w EXCEPT !.log = Append(@, [q EXCEPT !.ok = a.ok]), !.remote = a.remote, !.ok = a.ok,
                      !.exc = IF a.ok THEN None ELSE "HTTPError", !.val = a.body,
                      !.fuel = IF @ = 0 THEN 0 ELSE @ - 1])

(***************************************************************************)
(* api.py: ConfluenceSession.__init__ and the transport helpers.           *)
(***************************************************************************)
_detect_api_version_serverModern(deployment_type) ==
    IF deployment_type = "datacenter" THEN VERSION_1 ELSE VERSION_2

_detect_api_version(deployment_type) ==
    IF deployment_type \in {"datacenter", "server"} THEN VERSION_1
    ELSE IF deployment_type = "cloud" THEN VERSION_2
    ELSE VERSION_2

\* lines 466-485: infer domain and base path from a one-space listing
InferSite(w, version, root) ==
    Bind(IF version = VERSION_1
         THEN Send(w, Request("GET", root, VERSION_1, <<"space">>, [limit |-> "1"], NoBody))
         ELSE Send(w, Request("GET", root, VERSION_2, <<"spaces">>, [limit |-> "1"], NoBody)),
         LAMBDA w1 :
            IF ~w1.ok THEN w1
            ELSE IF version = VERSION_1 /\ w1.val.results = <<>> THEN Raise(w1, "ConfluenceError")
            ELSE LET base_url == IF version = VERSION_1 THEN w1.val.results[1]._links.base
                                 ELSE w1.val._links.base
                     parsed == urlparse(base_url)
                 IN Return(w1, [domain |-> parsed.domain,
                                base_path |-> IF EndsWithSlash(parsed.base_path) THEN parsed.base_path
                                              ELSE parsed.base_path \o "/"]))

FallBack_reraise(w, domain, base_path) == w

\* the except clause of lines 520-523: only requests' HTTPError is caught
FallBack(w, domain, base_path) ==
    IF w.exc = "HTTPError"
    THEN Return([w EXCEPT !.ok = TRUE, !.exc = None], ClassicRoot(domain, base_path))
    ELSE w

\* discovery that asks the site whatever the generation
DiscoverRoot_probeLegacy(w, version, domain, base_path) ==
    Bind(Send(w, Request("GET", Url("https", domain, "/_edge/tenant_info"), "edge",
                         <<"tenant_info">>, NoQuery, NoBody)),
         LAMBDA w1 :
            IF ~w1.ok THEN FallBack(w1, domain, base_path)
            ELSE Bind(Send(w1, Request("GET", ScopedRoot(w1.val.cloudId), VERSION_2, <<"spaces">>,
                                       [limit |-> "1"], NoBody)),
                      LAMBDA w2 :
                        IF ~w2.ok THEN FallBack(w2, domain, base_path)
                        ELSE Return(w2, ScopedRoot(w1.val.cloudId))))


\* lines 493-523: discover the API root when none was given
DiscoverRoot(w, version, domain, base_path) ==
    IF version = VERSION_1 THEN Return(w, ClassicRoot(domain, base_path))
    ELSE Bind(Send(w, Request("GET", Url("https", domain, "/_edge/tenant_info"), "edge",
                              <<"tenant_info">>, NoQuery, NoBody)),
              LAMBDA w1 :
                IF ~w1.ok THEN FallBack(w1, domain, base_path)
                ELSE Bind(Send(w1, Request("GET", ScopedRoot(w1.val.cloudId), VERSION_2, <<"spaces">>,
                                           [limit |-> "1"], NoBody)),
                          LAMBDA w2 :
                            IF ~w2.ok THEN FallBack(w2, domain, base_path)
                            ELSE Return(w2, ScopedRoot(w1.val.cloudId))))

SessionFields(w, version, root, s) ==
    [w EXCEPT !.val = [api_version |-> version, api_url |-> root, site |-> s]]

ConfluenceSession_init_unchecked(w, p) ==
    LET version == _detect_api_version(p.deployment_type)
        infer == p.api_url # NoUrl /\ (Falsy(p.domain) \/ Falsy(p.base_path))
    IN  Bind(IF infer THEN InferSite(w, version, p.api_url)
             ELSE Return(w, [domain |-> p.domain, base_path |-> p.base_path]),
             LAMBDA w1 :
                IF ~w1.ok THEN SessionFields(w1, version, p.api_url, NoSite)
                ELSE Bind(IF p.api_url = NoUrl
                          THEN DiscoverRoot(w1, version, w1.val.domain, w1.val.base_path)
                          ELSE Return(w1, p.api_url),
                          LAMBDA w2 :
                            SessionFields(w2, version, IF w2.ok THEN w2.val ELSE NoUrl,
                                          [domain |-> w1.val.domain, base_path |-> w1.val.base_path,
                                           space_key |-> p.space_key])))

ConfluenceSession_init(w, p) ==
    LET version == _detect_api_version(p.deployment_type)
        infer == p.api_url # NoUrl /\ (Falsy(p.domain) \/ Falsy(p.base_path))
    IN  Bind(IF infer THEN InferSite(w, version, p.api_url)
             ELSE Return(w, [domain |-> p.domain, base_path |-> p.base_path]),
             LAMBDA w1 :
                IF ~w1.ok THEN SessionFields(w1, version, p.api_url, NoSite)
                ELSE IF Falsy(w1.val.domain) \/ Falsy(w1.val.base_path)
                THEN SessionFields(Raise(w1, "ArgumentError"), version, p.api_url, NoSite)
                ELSE Bind(IF p.api_url = NoUrl
                          THEN DiscoverRoot(w1, version, w1.val.domain, w1.val.base_path)
                          ELSE Return(w1, p.api_url),
                          LAMBDA w2 :
                            SessionFields(w2, version, IF w2.ok THEN w2.val ELSE NoUrl,
                                          [domain |-> w1.val.domain, base_path |-> w1.val.base_path,
                                           space_key |-> p.space_key])))

(***************************************************************************)
(* api.py: transport helpers of an open session and the space lookups.     *)
(***************************************************************************)
_get(w, version, path, query) == Send(w, Request("GET", api_url, version, path, query, NoBody))

_post(w, version, path, body) == Send(w, Request("POST", api_url, version, path, NoQuery, body))

_put(w, version, path, body) == Send(w, Request("PUT", api_url, version, path, NoQuery, body))

session_delete(w, version, path, query) == Send(w, Request("DELETE", api_url, version, path, query, NoBody))

map_space_v1_to_id(v1_response) == str(v1_response.id)

_space_id_to_key_v1(w, id) ==
    IF Get(w.idk, id) = None THEN Raise(w, "ConfluenceError") ELSE Return(w, Get(w.idk, id))

space_id_to_key(w, id) ==
    IF ~w.ok THEN w
    ELSE IF Get(w.idk, id) # None THEN Return(w, Get(w.idk, id))
    ELSE IF api_version = VERSION_1 THEN _space_id_to_key_v1(w, id)
    ELSE Bind(_get(w, VERSION_2, <<"spaces">>, [ids |-> id, status |-> "current"]), LAMBDA w1 :
            IF ~w1.ok THEN w1
            ELSE IF Len(w1.val.results) # 1 THEN Raise(w1, "ConfluenceError")
            ELSE Return([w1 EXCEPT !.idk = Put(@, id, w1.val.results[1].key)], w1.val.results[1].key))

_space_key_to_id_v1_noReverse(w, key) ==
    Bind(_get(w, VERSION_1, <<"space", key>>, NoQuery), LAMBDA w1 :
        IF ~w1.ok THEN w1
        ELSE Return([w1 EXCEPT !.kid = Put(@, key, map_space_v1_to_id(w1.val))],
                    map_space_v1_to_id(w1.val)))

_space_key_to_id_v1(w, key) ==
    Bind(_get(w, VERSION_1, <<"space", key>>, NoQuery), LAMBDA w1 :
        IF ~w1.ok THEN w1
        ELSE Return([w1 EXCEPT !.kid = Put(@, key, map_space_v1_to_id(w1.val)),
                               !.idk = Put(@, map_space_v1_to_id(w1.val), key)],
                    map_space_v1_to_id(w1.val)))

\* a lookup that asks the service every time
space_key_to_id_noCache(w, key) ==
    IF ~w.ok THEN w
    ELSE IF api_version = VERSION_1 THEN _space_key_to_id_v1(w, key)
    ELSE Bind(_get(w, VERSION_2, <<"spaces">>, [keys |-> key, status |-> "current"]), LAMBDA w1 :
            IF ~w1.ok THEN w1
            ELSE IF Len(w1.val.results) # 1 THEN Raise(w1, "ConfluenceError")
            ELSE Return([w1 EXCEPT !.kid = Put(@, key, w1.val.results[1].id),
                                   !.idk = Put(@, w1.val.results[1].id, key)],
                        w1.val.results[1].id))


space_key_to_id(w, key) ==
    IF ~w.ok THEN w
    ELSE IF Get(w.kid, key) # None THEN Return(w, Get(w.kid, key))
    ELSE IF api_version = VERSION_1 THEN _space_key_to_id_v1(w, key)
    ELSE Bind(_get(w, VERSION_2, <<"spaces">>, [keys |-> key, status |-> "current"]), LAMBDA w1 :
            IF ~w1.ok THEN w1
            ELSE IF Len(w1.val.results) # 1 THEN Raise(w1, "ConfluenceError")
            ELSE Return([w1 EXCEPT !.kid = Put(@, key, w1.val.results[1].id),
                                   !.idk = Put(@, w1.val.results[1].id, key)],
                        w1.val.results[1].id))

(***************************************************************************)
(* api.py: the two pagination walks.                                       *)
(***************************************************************************)
limit == 200

RECURSIVE _fetch_v1_from(_, _, _, _, _)

\* the loop of _fetch_v1, entered with the offset and the items so far
_fetch_v1_from_stopAtFull(w, path, query, start, items) ==
    Bind(_get(w, VERSION_1, path, [start |-> IntToStr(start), limit |-> IntToStr(limit)] @@ query),
         LAMBDA w1 :
            IF ~w1.ok THEN w1
            ELSE IF (IF "size" \in DOMAIN w1.val THEN w1.val.size ELSE 0) <= limit
            THEN Return(w1, items \o (IF "results" \in DOMAIN w1.val THEN w1.val.results ELSE <<>>))
            ELSE _fetch_v1_from(w1, path, query, start + limit,
                                items \o (IF "results" \in DOMAIN w1.val THEN w1.val.results ELSE <<>>)))

_fetch_v1_from(w, path, query, start, items) ==
    Bind(_get(w, VERSION_1, path, [start |-> IntToStr(start), limit |-> IntToStr(limit)] @@ query),
         LAMBDA w1 :
            IF ~w1.ok THEN w1
            ELSE IF (IF "size" \in DOMAIN w1.val THEN w1.val.size ELSE 0) < limit
            THEN Return(w1, items \o (IF "results" \in DOMAIN w1.val THEN w1.val.results ELSE <<>>))
            ELSE _fetch_v1_from(w1, path, query, start + limit,
                                items \o (IF "results" \in DOMAIN w1.val THEN w1.val.results ELSE <<>>)))

\* a walk that could be restarted: it takes up the listing where the walk before it stopped
_fetch_v1_resumed(w, path, query) == _fetch_v1_from(w, path, query, limit * Len(log), <<>>)


_fetch_v1(w, path, query) ==
    _fetch_v1_from(w, path, query, 0, <<>>)

\* f"https://{self.site.domain}{link}": the link is appended to the host as it
\* is, so the scheme of an absolute link ends up in the authority of the URL
\* and its host in the path
LinkRequest(link) ==
    Request("GET",
            IF link.netloc = "" THEN Url("https", site.domain, link.base)
            ELSE Url("https", site.domain \o link.scheme \o ":", "//" \o link.netloc \o link.base),
            link.api, link.path, link.query, NoBody)

RECURSIVE _fetch_v2_from(_, _, _)

\* the loop of _fetch_v2, entered with the request for the next page and the items so far
_fetch_v2_from_dropLast(w, q, items) ==
    Bind(Send(w, q), LAMBDA w1 :
        IF ~w1.ok THEN w1
        ELSE IF "_links" \in DOMAIN w1.val /\ "next" \in DOMAIN w1.val._links
        THEN _fetch_v2_from(w1, LinkRequest(w1.val._links.next), items \o w1.val.results)
        ELSE Return(w1, items))

_fetch_v2_from(w, q, items) ==
    Bind(Send(w, q), LAMBDA w1 :
        IF ~w1.ok THEN w1
        ELSE IF "_links" \in DOMAIN w1.val /\ "next" \in DOMAIN w1.val._links
        THEN _fetch_v2_from(w1, LinkRequest(w1.val._links.next), items \o w1.val.results)
        ELSE Return(w1, items \o w1.val.results))

_fetch_v2(w, path, query) ==
    _fetch_v2_from(w, Request("GET", api_url, VERSION_2, path, query, NoBody), <<>>)

_fetch_alwaysV2(w, path, query) == _fetch_v2(w, path, query)

_fetch(w, path, query) ==
    IF api_version = VERSION_1 THEN _fetch_v1(w, path, query) ELSE _fetch_v2(w, path, query)

(***************************************************************************)
(* api.py: reading and updating a page.                                     *)
(***************************************************************************)
\* the value a mapper returned, or the exception it raised
FromMapper(w, m) == IF m.ok THEN Return(w, m.val) ELSE Raise(w, m.exc)

_get_page_properties_v1(w, page_id) ==
    Bind(_get(w, VERSION_1, <<"content", page_id>>, [expand |-> "version,space"]), LAMBDA w1 :
        IF ~w1.ok THEN w1 ELSE FromMapper(w1, map_page_properties_v1_to_domain(w1.val)))

\* _json_to_object(ConfluencePageProperties, ...)
json_to_page_properties(data) ==
    [id |-> data.id, spaceId |-> data.spaceId, parentId |-> data.parentId, status |-> data.status,
     title |-> data.title, version |-> [number |-> data.version.number]]

get_page_properties(w, page_id) ==
    IF api_version = VERSION_1 THEN _get_page_properties_v1(w, page_id)
    ELSE Bind(_get(w, VERSION_2, <<"pages", page_id>>, NoQuery), LAMBDA w1 :
            IF ~w1.ok THEN w1 ELSE Return(w1, json_to_page_properties(w1.val)))

get_space_id(w, space_id, space_key) ==
    IF space_id # None /\ space_key # None THEN Raise(w, "ConfluenceError")
    ELSE IF space_id # None THEN Return(w, space_id)
    ELSE IF Or(space_key, site.space_key) # None THEN space_key_to_id(w, Or(space_key, site.space_key))
    ELSE Return(w, None)

\* lines 1016-1022: the legacy lookup needs the key of the space
SpaceKeyForTitle(w, space_id, space_key) ==
    IF space_id # None /\ space_key = None THEN space_id_to_key(w, space_id)
    ELSE IF space_key = None
    THEN Bind(get_space_id(w, space_id, space_key), LAMBDA w1 :
            IF ~w1.ok THEN w1
            ELSE IF ~Falsy(w1.val) THEN space_id_to_key(w1, w1.val)
            ELSE Return(w1, None))
    ELSE Return(w, space_key)

_get_page_properties_by_title_v1(w, title, space_id, space_key) ==
    Bind(SpaceKeyForTitle(w, space_id, space_key), LAMBDA w1 :
        IF ~w1.ok THEN w1
        ELSE Bind(_get(w1, VERSION_1, <<"content">>,
                       [title |-> title, type |-> "page", expand |-> "version,space"]
                           @@ (IF w1.val # None THEN [spaceKey |-> w1.val] ELSE EmptyMap)),
                  LAMBDA w2 :
                    IF ~w2.ok THEN w2
                    ELSE IF Len(IF Has(w2.val, "results") THEN w2.val.results ELSE <<>>) # 1
                    THEN Raise(w2, "ConfluenceError")
                    ELSE FromMapper(w2, map_page_properties_v1_to_domain(w2.val.results[1]))))

get_page_properties_by_title(w, title, space_id, space_key) ==
    IF api_version = VERSION_1 THEN _get_page_properties_by_title_v1(w, title, space_id, space_key)
    ELSE Bind(get_space_id(w, space_id, space_key), LAMBDA w1 :
            IF ~w1.ok THEN w1
            ELSE Bind(_get(w1, VERSION_2, <<"pages">>,
                           [title |-> title] @@ (IF w1.val # None THEN ("space-id" :> w1.val) ELSE EmptyMap)),
                      LAMBDA w2 :
                        IF ~w2.ok THEN w2
                        ELSE IF Len(w2.val.results) # 1 THEN Raise(w2, "ConfluenceError")
                        ELSE Return(w2, json_to_page_properties(w2.val.results[1]))))

get_page_version(w, page_id) ==
    Bind(get_page_properties(w, page_id), LAMBDA w1 : IF ~w1.ok THEN w1 ELSE Return(w1, w1.val.version.number))

ConfluenceUpdatePageRequest(page_id, title, content, version) ==
    [id |-> page_id, status |-> "current", title |-> title,
     body |-> [storage |-> [representation |-> "storage", value |-> content]],
     version |-> [number |-> version, minorEdit |-> TRUE]]

map_update_page_to_v1(page_id, request, space_key) ==
    [id |-> page_id, type |-> "page", title |-> request.title, space |-> [key |-> space_key],
     body |-> [storage |-> [value |-> request.body.storage.value, representation |-> "storage"]],
     version |-> [number |-> request.version.number, minorEdit |-> request.version.minorEdit],
     status |-> request.status]

_update_page_v1(w, page_id, content, title, version) ==
    Bind(get_page_properties(w, page_id), LAMBDA w1 :
        IF ~w1.ok THEN w1
        ELSE Bind(space_id_to_key(w1, w1.val.spaceId), LAMBDA w2 :
                IF ~w2.ok THEN w2
                ELSE Return(_put(w2, VERSION_1, <<"content", page_id>>,
                                 map_update_page_to_v1(page_id,
                                    ConfluenceUpdatePageRequest(page_id, title, content, version), w2.val)),
                            None)))

update_page(w, page_id, content, title, version) ==
    IF api_version = VERSION_1 THEN _update_page_v1(w, page_id, content, title, version)
    ELSE Return(_put(w, VERSION_2, <<"pages", page_id>>,
                     ConfluenceUpdatePageRequest(page_id, title, content, version)), None)

json_to_page(data) ==
    [id |-> data.id, spaceId |-> data.spaceId, parentId |-> data.parentId, status |-> data.status,
     title |-> data.title, version |-> [number |-> data.version.number],
     body |-> [storage |-> [value |-> data.body.storage.value,
                            representation |-> data.body.storage.representation]]]

ConfluenceCreatePageRequest(spaceId, title, parentId, new_content) ==
    [spaceId |-> spaceId, status |-> "current", title |-> title, parentId |-> parentId,
     body |-> [storage |-> [representation |-> "storage", value |-> new_content]]]

map_create_page_to_v1(request, space_key) ==
    [type |-> "page", title |-> request.title, space |-> [key |-> space_key],
     body |-> [storage |-> [value |-> request.body.storage.value, representation |-> "storage"]]]
    @@ (IF ~Falsy(request.parentId) THEN [ancestors |-> <<[id |-> request.parentId]>>] ELSE EmptyMap)

_create_page_v1(w, parent_id, title, new_content) ==
    Bind(get_page_properties(w, parent_id), LAMBDA w1 :
        IF ~w1.ok THEN w1
        ELSE Bind(space_id_to_key(w1, w1.val.spaceId), LAMBDA w2 :
                IF ~w2.ok THEN w2
                ELSE Bind(Send(w2, Request("POST", api_url, VERSION_1, <<"content">>, NoQuery,
                                           map_create_page_to_v1(
                                               ConfluenceCreatePageRequest(w1.val.spaceId, title, parent_id,
                                                                           new_content),
                                               w2.val))),
                          LAMBDA w3 : IF ~w3.ok THEN w3 ELSE FromMapper(w3, map_page_v1_to_domain(w3.val)))))

\* the modern path is "/pages/": the collection, with a trailing slash
create_page(w, parent_id, title, new_content) ==
    IF api_version = VERSION_1 THEN _create_page_v1(w, parent_id, title, new_content)
    ELSE Bind(get_page_properties(w, parent_id), LAMBDA w1 :
            IF ~w1.ok THEN w1
            ELSE Bind(Send(w1, Request("POST", api_url, VERSION_2, <<"pages">>, NoQuery,
                                       ConfluenceCreatePageRequest(w1.val.spaceId, title, parent_id,
                                                                   new_content))),
                      LAMBDA w2 : IF ~w2.ok THEN w2 ELSE Return(w2, json_to_page(w2.val))))

_delete_page_v1(w, page_id, purge) ==
    IF purge
    THEN Return(session_delete(w, VERSION_1, <<"content", page_id>>, [status |-> "trashed"]), None)
    ELSE Return(session_delete(w, VERSION_1, <<"content", page_id>>, NoQuery), None)

delete_page_singleCall(w, page_id, purge) ==
    IF api_version = VERSION_1 THEN _delete_page_v1(w, page_id, purge)
    ELSE Return(session_delete(w, VERSION_2, <<"pages", page_id>>,
                               IF purge THEN [purge |-> "true"] ELSE NoQuery), None)

delete_page_purgeAnyway(w, page_id, purge) ==
    IF api_version = VERSION_1 THEN _delete_page_v1(w, page_id, purge)
    ELSE Bind(session_delete(w, VERSION_2, <<"pages", page_id>>, NoQuery), LAMBDA w1 :
            IF purge
            THEN Return(session_delete([w1 EXCEPT !.ok = TRUE, !.exc = None], VERSION_2, <<"pages", page_id>>,
                                       [purge |-> "true"]), None)
            ELSE Return(w1, None))

delete_page(w, page_id, purge) ==
    IF api_version = VERSION_1 THEN _delete_page_v1(w, page_id, purge)
    ELSE Bind(session_delete(w, VERSION_2, <<"pages", page_id>>, NoQuery), LAMBDA w1 :
            IF ~w1.ok THEN w1
            ELSE IF purge
            THEN Return(session_delete(w1, VERSION_2, <<"pages", page_id>>, [purge |-> "true"]), None)
            ELSE Return(w1, None))

(***************************************************************************)
(* api.py: finding a page by its title, and creating it if there is none.  *)
(***************************************************************************)
_get_page_v1(w, page_id) ==
    Bind(_get(w, VERSION_1, <<"content", page_id>>, [expand |-> "body.storage,version,space"]), LAMBDA w1 :
        IF ~w1.ok THEN w1 ELSE FromMapper(w1, map_page_v1_to_domain(w1.val)))

get_page(w, page_id) ==
    IF api_version = VERSION_1 THEN _get_page_v1(w, page_id)
    ELSE Bind(_get(w, VERSION_2, <<"pages", page_id>>, ("body-format" :> "storage")), LAMBDA w1 :
            IF ~w1.ok THEN w1 ELSE Return(w1, json_to_page(w1.val)))

\* lines 1385-1391 resolve the space key as lines 1016-1022 do
_page_exists_v1(w, title, space_id, space_key) ==
    Bind(SpaceKeyForTitle(w, space_id, space_key), LAMBDA w1 :
        IF ~w1.ok THEN w1
        ELSE Bind(_get(w1, VERSION_1, <<"content">>,
                       [title |-> title, type |-> "page"]
                           @@ (IF w1.val # None THEN [spaceKey |-> w1.val] ELSE EmptyMap)),
                  LAMBDA w2 :
                    IF ~w2.ok THEN w2
                    ELSE IF Len(IF Has(w2.val, "results") THEN w2.val.results ELSE <<>>) = 1
                    THEN Return(w2, str(w2.val.results[1].id))
                    ELSE Return(w2, None)))

page_exists(w, title, space_id, space_key) ==
    IF api_version = VERSION_1 THEN _page_exists_v1(w, title, space_id, space_key)
    ELSE Bind(get_space_id(w, space_id, space_key), LAMBDA w1 :
            IF ~w1.ok THEN w1
            ELSE Bind(_get(w1, VERSION_2, <<"pages">>,
                           [title |-> title] @@ (IF w1.val # None THEN ("space-id" :> w1.val) ELSE EmptyMap)),
                      LAMBDA w2 :
                        IF ~w2.ok THEN w2
                        ELSE IF Len(w2.val.results) = 1
                        THEN Return(w2, json_to_page_properties(w2.val.results[1]).id)
                        ELSE Return(w2, None)))

get_or_create_page(w, title, parent_id) ==
    Bind(get_page_properties(w, parent_id), LAMBDA w1 :
        IF ~w1.ok THEN w1
        ELSE Bind(page_exists(w1, title, w1.val.spaceId, None), LAMBDA w2 :
                IF ~w2.ok THEN w2
                ELSE IF w2.val # None THEN get_page(w2, w2.val)
                ELSE create_page(w2, parent_id, title, "")))


(***************************************************************************)
(* api.py: the attachments of a page.  An optional argument that is not    *)
(* given is Absent; a path is a record of its name, whether it is a file   *)
(* and the file's size, raw data a record of its length.                   *)
(***************************************************************************)
Absent == [absent |-> TRUE]

\* the fields a ConfluenceAttachment must be constructed with
AttachmentFields ==
    {"id", "status", "title", "createdAt", "pageId", "mediaType", "mediaTypeDescription", "comment",
     "fileId", "fileSize", "webuiLink", "downloadLink", "version"}

\* the dataclass constructor: a required field that is not passed is a TypeError
ConfluenceAttachment(kw) ==
    IF AttachmentFields \subseteq DOMAIN kw THEN Mapped(kw)
    ELSE [ok |-> FALSE, exc |-> "TypeError", val |-> None]

map_attachment_v1_to_domain(v1_response) ==
    IF ~Has(v1_response, "id") \/ ~Has(v1_response, "title") THEN KeyError
    ELSE LET metadata == IF Has(v1_response, "metadata") THEN v1_response.metadata ELSE EmptyMap
             extensions == IF Has(v1_response, "extensions") THEN v1_response.extensions ELSE EmptyMap
             container == IF Has(v1_response, "container") THEN v1_response.container ELSE EmptyMap
             links == IF Has(v1_response, "_links") THEN v1_response._links ELSE EmptyMap
         IN ConfluenceAttachment(
                [id |-> str(v1_response.id),
                 title |-> str(v1_response.title),
                 mediaType |-> IF Has(metadata, "mediaType") THEN str(metadata.mediaType)
                               ELSE "application/octet-stream",
                 fileSize |-> IF Has(extensions, "fileSize") THEN extensions.fileSize ELSE 0,
                 webuiLink |-> IF Has(links, "webui") THEN str(links.webui) ELSE "",
                 downloadLink |-> IF Has(links, "download") THEN str(links.download) ELSE "",
                 pageId |-> IF Has(container, "id") THEN str(container.id) ELSE ""])

\* _json_to_object(ConfluenceAttachment, ...)
json_to_attachment(data) == ConfluenceAttachment([f \in AttachmentFields \cap DOMAIN data |-> data[f]])

_get_attachment_by_name_v1(w, page_id, filename) ==
    Bind(_get(w, VERSION_1, <<"content", page_id, "child", "attachment">>, [filename |-> filename]), LAMBDA w1 :
        IF ~w1.ok THEN w1
        ELSE IF ~Has(w1.val, "results") \/ Len(w1.val.results) # 1 THEN Raise(w1, "ConfluenceError")
        ELSE FromMapper(w1, map_attachment_v1_to_domain(w1.val.results[1])))

get_attachment_by_name(w, page_id, filename) ==
    IF api_version = VERSION_1 THEN _get_attachment_by_name_v1(w, page_id, filename)
    ELSE Bind(_get(w, VERSION_2, <<"pages", page_id, "attachments">>, [filename |-> filename]), LAMBDA w1 :
            IF ~w1.ok THEN w1
            ELSE IF ~Has(w1.val, "results") THEN Raise(w1, "KeyError")
            ELSE IF Len(w1.val.results) # 1 THEN Raise(w1, "ConfluenceError")
            ELSE FromMapper(w1, json_to_attachment(w1.val.results[1])))

_update_attachment(w, page_id, attachment_id, version, attachment_title) ==
    Return(_put(w, VERSION_1, <<"content", page_id, "child", "attachment", removeprefix(attachment_id, "att")>>,
                [id |-> attachment_id, type |-> "attachment", status |-> "current", title |-> attachment_title,
                 version |-> [number |-> version, minorEdit |-> TRUE]]),
           None)

\* mimetypes.guess_type(name, strict=True)[0]
guess_type(name) == IF name \in {"a.png", "img/b.png", "/tmp/a.png"} THEN "image/png" ELSE None

\* the multipart form of the upload
Files(attachment_name, size, content_type, comment) ==
    [comment |-> comment, file |-> [name |-> attachment_name, size |-> size, content_type |-> content_type]]

Uploaded_sameVersion(w, page_id, attachment_name, path, files) ==
    Bind(Send(w, Request("POST", api_url, VERSION_1, path, NoQuery, files)), LAMBDA w1 :
        IF ~w1.ok THEN w1
        ELSE Bind(IF Has(w1.val, "results") THEN w1.val.results[1] ELSE w1.val, LAMBDA result :
                IF ~Has(result, "id") \/ ~Has(result, "version") \/ ~Has(result.version, "number")
                THEN Raise(w1, "KeyError")
                ELSE IF result.id.t # "str" THEN Raise(w1, "AttributeError")
                ELSE _update_attachment(w1, page_id, result.id.s, result.version.number,
                                        attachment_name)))

\* the upload and what follows it: the response is read and the title re-asserted
Uploaded(w, page_id, attachment_name, path, files) ==
    Bind(Send(w, Request("POST", api_url, VERSION_1, path, NoQuery, files)), LAMBDA w1 :
        IF ~w1.ok THEN w1
        ELSE Bind(IF Has(w1.val, "results") THEN w1.val.results[1] ELSE w1.val, LAMBDA result :
                IF ~Has(result, "id") \/ ~Has(result, "version") \/ ~Has(result.version, "number")
                THEN Raise(w1, "KeyError")
                ELSE IF result.id.t # "str" THEN Raise(w1, "AttributeError")
                ELSE _update_attachment(w1, page_id, result.id.s, result.version.number + 1,
                                        attachment_name)))

upload_attachment(w, page_id, attachment_name, attachment_path, raw_data, content_type, comment, force) ==
    IF attachment_path = Absent /\ raw_data = Absent THEN Raise(w, "ArgumentError")
    ELSE IF attachment_path # Absent /\ raw_data # Absent THEN Raise(w, "ArgumentError")
    ELSE IF attachment_path # Absent /\ ~attachment_path.is_file THEN Raise(w, "PageError")
    ELSE LET name == IF attachment_path # Absent THEN attachment_path.name ELSE attachment_name
             mime == IF content_type # None THEN content_type
                     ELSE IF guess_type(name) # None THEN guess_type(name)
                     ELSE "application/octet-stream"
             size == IF attachment_path # Absent THEN attachment_path.st_size ELSE raw_data.len
         IN Bind(get_attachment_by_name(w, page_id, attachment_name), LAMBDA w1 :
                IF w1.ok /\ ~force /\ w1.val.fileSize = size THEN Return(w1, None)
                ELSE IF w1.ok
                THEN Uploaded(w1, page_id, attachment_name,
                              <<"content", page_id, "child", "attachment", removeprefix(w1.val.id, "att"), "data">>,
                              Files(attachment_name, size, mime, comment))
                ELSE IF w1.exc = "ConfluenceError"
                THEN Uploaded([w1 EXCEPT !.ok = TRUE, !.exc = None], page_id, attachment_name,
                              <<"content", page_id, "child", "attachment">>,
                              Files(attachment_name, size, mime, comment))
                ELSE w1)

(***************************************************************************)
(* api.py: labels and content properties of a page, and their               *)
(* reconciliation.  Python orders strings by code point: Alphabet lists the *)
(* strings that are sorted, in that order.                                  *)
(***************************************************************************)
Alphabet == <<"a", "author", "b", "build", "c", "color", "docs", "global", "my", "wiki">>

Rank(t) == CHOOSE i \in DOMAIN Alphabet : Alphabet[i] = t

StrLess(x, y) == Rank(x) < Rank(y)

\* @dataclass(order=True) on ConfluenceLabel: (name, prefix) compared as a tuple
LabelLess(x, y) == StrLess(x.name, y.name) \/ (x.name = y.name /\ StrLess(x.prefix, y.prefix))

ConfluenceLabel(name, prefix) == [name |-> name, prefix |-> prefix]

map_label_v1_to_domain(v1_response) ==
    [id |-> str(v1_response.id), name |-> str(v1_response.name),
     prefix |-> IF Has(v1_response, "prefix") THEN str(v1_response.prefix) ELSE "global"]

\* _json_to_object(list[ConfluenceIdentifiedLabel], results), item by item
json_to_label(item) == [id |-> item.id, name |-> item.name, prefix |-> item.prefix]

get_labels(w, page_id) ==
    IF api_version = VERSION_1
    THEN Bind(_fetch(w, <<"content", page_id, "label">>, NoQuery), LAMBDA w1 :
            IF ~w1.ok THEN w1 ELSE Return(w1, Map(w1.val, map_label_v1_to_domain)))
    ELSE Bind(_fetch(w, <<"pages", page_id, "labels">>, NoQuery), LAMBDA w1 :
            IF ~w1.ok THEN w1 ELSE Return(w1, Map(w1.val, json_to_label)))

add_labels(w, page_id, labels) ==
    Return(_post(w, VERSION_1, <<"content", page_id, "label">>, labels), None)

RECURSIVE remove_labels_from(_, _, _, _)

\* the for loop of remove_labels, entered at the i-th label
remove_labels_from(w, page_id, labels, i) ==
    IF ~w.ok \/ i > Len(labels) THEN Return(w, None)
    ELSE remove_labels_from(
            session_delete(w, VERSION_1, <<"content", page_id, "label">>, [name |-> labels[i].name]),
            page_id, labels, i + 1)

remove_labels(w, page_id, labels) == remove_labels_from(w, page_id, labels, 1)

RECURSIVE sorted_labels(_)

\* list(...) of a set followed by .sort(), the mutant leaving the list in descending order
sorted_labels_descending(S) ==
    IF S = {} THEN <<>>
    ELSE LET m == CHOOSE x \in S : \A y \in S \ {x} : LabelLess(y, x)
         IN <<m>> \o sorted_labels(S \ {m})

sorted_labels(S) ==
    IF S = {} THEN <<>>
    ELSE LET m == CHOOSE x \in S : \A y \in S \ {x} : LabelLess(x, y)
         IN <<m>> \o sorted_labels(S \ {m})

\* lines 1546-1548
LabelsAdded(w, page_id, to_add) ==
    IF to_add # <<>> THEN add_labels(w, page_id, to_add) ELSE w

LabelsRemoved_ignoreKeep(w, page_id, to_remove, keep_existing) ==
    IF to_remove # <<>> THEN remove_labels(w, page_id, to_remove) ELSE w

\* lines 1549-1551
LabelsRemoved(w, page_id, to_remove, keep_existing) ==
    IF ~keep_existing /\ to_remove # <<>> THEN remove_labels(w, page_id, to_remove) ELSE w

update_labels(w, page_id, labels, keep_existing) ==
    Bind(get_labels(w, page_id), LAMBDA w1 :
        IF ~w1.ok THEN w1
        ELSE Return(LabelsRemoved(
                        LabelsAdded(w1, page_id,
                            sorted_labels(Range(labels) \ {ConfluenceLabel(l.name, l.prefix) : l \in Range(w1.val)})),
                        page_id,
                        sorted_labels({ConfluenceLabel(l.name, l.prefix) : l \in Range(w1.val)} \ Range(labels)),
                        keep_existing),
                    None))

map_property_v1_to_domain(v1_response) ==
    [id |-> str(v1_response.id), key |-> str(v1_response.key), value |-> v1_response.value,
     version |-> [number |-> IF Has(v1_response, "version") /\ Has(v1_response.version, "number")
                             THEN v1_response.version.number ELSE 1]]

\* _json_to_object(ConfluenceIdentifiedContentProperty, ...)
json_to_property(item) ==
    [id |-> item.id, key |-> item.key, value |-> item.value, version |-> [number |-> item.version.number]]

get_content_properties_for_page(w, page_id) ==
    IF api_version = VERSION_1
    THEN Bind(_fetch(w, <<"content", page_id, "property">>, NoQuery), LAMBDA w1 :
            IF ~w1.ok THEN w1 ELSE Return(w1, Map(w1.val, map_property_v1_to_domain)))
    ELSE Bind(_fetch(w, <<"pages", page_id, "properties">>, NoQuery), LAMBDA w1 :
            IF ~w1.ok THEN w1 ELSE Return(w1, Map(w1.val, json_to_property)))

_add_content_property_to_page_v1(w, page_id, property) ==
    Bind(_post(w, VERSION_1, <<"content", page_id, "property">>, [key |-> property.key, value |-> property.value]),
         LAMBDA w1 : IF ~w1.ok THEN w1 ELSE Return(w1, map_property_v1_to_domain(w1.val)))

add_content_property_to_page(w, page_id, property) ==
    IF api_version = VERSION_1 THEN _add_content_property_to_page_v1(w, page_id, property)
    ELSE Bind(_post(w, VERSION_2, <<"pages", page_id, "properties">>, [key |-> property.key, value |-> property.value]),
              LAMBDA w1 : IF ~w1.ok THEN w1 ELSE Return(w1, json_to_property(w1.val)))

\* lines 1594-1602: the key of the first listed property that has the id, or None
KeyOfId(props, property_id) ==
    IF \E i \in DOMAIN props : props[i].id = property_id
    THEN props[CHOOSE i \in DOMAIN props :
                  props[i].id = property_id /\ \A j \in 1..(i - 1) : props[j].id # property_id].key
    ELSE None

\* the removal addressed by the id it was given, without the listing
_remove_content_property_from_page_v1_byId(w, page_id, property_id) ==
    Return(session_delete(w, VERSION_1, <<"content", page_id, "property", property_id>>, NoQuery), None)


_remove_content_property_from_page_v1(w, page_id, property_id) ==
    Bind(get_content_properties_for_page(w, page_id), LAMBDA w1 :
        IF ~w1.ok THEN w1
        ELSE IF KeyOfId(w1.val, property_id) = None THEN Raise(w1, "PageError")
        ELSE Return(session_delete(w1, VERSION_1, <<"content", page_id, "property", KeyOfId(w1.val, property_id)>>,
                                   NoQuery), None))

remove_content_property_from_page(w, page_id, property_id) ==
    IF api_version = VERSION_1 THEN _remove_content_property_from_page_v1(w, page_id, property_id)
    ELSE Return(session_delete(w, VERSION_2, <<"pages", page_id, "properties", property_id>>, NoQuery), None)

_update_content_property_for_page_v1(w, page_id, property_id, version, property) ==
    Bind(get_content_properties_for_page(w, page_id), LAMBDA w1 :
        IF ~w1.ok THEN w1
        ELSE IF KeyOfId(w1.val, property_id) = None THEN Raise(w1, "PageError")
        ELSE Bind(_put(w1, VERSION_1, <<"content", page_id, "property", KeyOfId(w1.val, property_id)>>,
                       [key |-> property.key, value |-> property.value, version |-> [number |-> version]]),
                  LAMBDA w2 : IF ~w2.ok THEN w2 ELSE Return(w2, map_property_v1_to_domain(w2.val))))

update_content_property_for_page(w, page_id, property_id, version, property) ==
    IF api_version = VERSION_1 THEN _update_content_property_for_page_v1(w, page_id, property_id, version, property)
    ELSE Bind(_put(w, VERSION_2, <<"pages", page_id, "properties", property_id>>,
                   [key |-> property.key, value |-> property.value, version |-> [number |-> version]]),
              LAMBDA w1 : IF ~w1.ok THEN w1 ELSE Return(w1, json_to_property(w1.val)))

\* {p.key: p for p in props}: a later entry replaces an earlier one of the same key
Mapping(props) ==
    [k \in {props[i].key : i \in DOMAIN props} |->
        props[CHOOSE i \in DOMAIN props : props[i].key = k /\ \A j \in (i + 1)..Len(props) : props[j].key # k]]

RECURSIVE sorted_keys(_)

sorted_keys_descending(S) ==
    IF S = {} THEN <<>>
    ELSE LET m == CHOOSE x \in S : \A y \in S \ {x} : StrLess(y, x)
         IN <<m>> \o sorted_keys(S \ {m})

sorted_keys(S) ==
    IF S = {} THEN <<>>
    ELSE LET m == CHOOSE x \in S : \A y \in S \ {x} : StrLess(x, y)
         IN <<m>> \o sorted_keys(S \ {m})

RECURSIVE PropertiesAdded(_, _, _, _, _)

\* lines 1750-1753, entered at the i-th key
PropertiesAdded(w, page_id, new_mapping, add_props, i) ==
    IF ~w.ok \/ i > Len(add_props) THEN Return(w, None)
    ELSE PropertiesAdded(add_content_property_to_page(w, page_id, new_mapping[add_props[i]]),
                         page_id, new_mapping, add_props, i + 1)

RECURSIVE PropertiesRemoved(_, _, _, _, _)

\* lines 1754-1757, entered at the i-th key
PropertiesRemoved(w, page_id, old_mapping, remove_props, i) ==
    IF ~w.ok \/ i > Len(remove_props) THEN Return(w, None)
    ELSE PropertiesRemoved(remove_content_property_from_page(w, page_id, old_mapping[remove_props[i]].id),
                           page_id, old_mapping, remove_props, i + 1)

RECURSIVE PropertiesUpdated(_, _, _, _, _, _)

PropertiesUpdated_sameVersion(w, page_id, old_mapping, new_mapping, update_props, i) ==
    IF ~w.ok \/ i > Len(update_props) THEN Return(w, None)
    ELSE IF old_mapping[update_props[i]].value = new_mapping[update_props[i]].value
    THEN PropertiesUpdated(w, page_id, old_mapping, new_mapping, update_props, i + 1)
    ELSE PropertiesUpdated(
            update_content_property_for_page(w, page_id, old_mapping[update_props[i]].id,
                                             old_mapping[update_props[i]].version.number,
                                             new_mapping[update_props[i]]),
            page_id, old_mapping, new_mapping, update_props, i + 1)

PropertiesUpdated_alwaysUpdate(w, page_id, old_mapping, new_mapping, update_props, i) ==
    IF ~w.ok \/ i > Len(update_props) THEN Return(w, None)
    ELSE PropertiesUpdated(
            update_content_property_for_page(w, page_id, old_mapping[update_props[i]].id,
                                             old_mapping[update_props[i]].version.number + 1,
                                             new_mapping[update_props[i]]),
            page_id, old_mapping, new_mapping, update_props, i + 1)

\* lines 1758-1765, entered at the i-th key
PropertiesUpdated(w, page_id, old_mapping, new_mapping, update_props, i) ==
    IF ~w.ok \/ i > Len(update_props) THEN Return(w, None)
    ELSE IF old_mapping[update_props[i]].value = new_mapping[update_props[i]].value
    THEN PropertiesUpdated(w, page_id, old_mapping, new_mapping, update_props, i + 1)
    ELSE PropertiesUpdated(
            update_content_property_for_page(w, page_id, old_mapping[update_props[i]].id,
                                             old_mapping[update_props[i]].version.number + 1,
                                             new_mapping[update_props[i]]),
            page_id, old_mapping, new_mapping, update_props, i + 1)

\* lines 1740-1765, once the page's properties are listed
PropertiesReconciled(w, page_id, old_mapping, new_mapping, keep_existing) ==
    PropertiesUpdated(
        PropertiesRemoved(
            PropertiesAdded(w, page_id, new_mapping, sorted_keys(DOMAIN new_mapping \ DOMAIN old_mapping), 1),
            page_id, old_mapping,
            IF keep_existing THEN <<>> ELSE sorted_keys(DOMAIN old_mapping \ DOMAIN new_mapping), 1),
        page_id, old_mapping, new_mapping, sorted_keys(DOMAIN old_mapping \cap DOMAIN new_mapping), 1)

update_content_properties_for_page(w, page_id, props, keep_existing) ==
    Bind(get_content_properties_for_page(w, page_id), LAMBDA w1 :
        IF ~w1.ok THEN w1
        ELSE PropertiesReconciled(w1, page_id, Mapping(w1.val), Mapping(props), keep_existing))

(***************************************************************************)
(* Values shared by the specifications below.                              *)
(***************************************************************************)
\* How many requests of one operation may succeed before an injected HTTP failure.
MaxFuel == 3

NoCall == [op |-> "none"]

NoRet == [ok |-> TRUE, exc |-> None, val |-> None]

Unset == [ok |-> FALSE, exc |-> "unset", val |-> None]

Space1 == [id |-> 65537, key |-> "DOCS"]

Space2 == [id |-> 98306, key |-> "OPS"]

PageIds == {"101"}

Page(title, content, number) ==
    [title |-> title, content |-> content, version |-> number, spaceId |-> 65537, status |-> "current",
     parentId |-> None]

RemoteDefault ==
    [v2 |-> TRUE, base |-> Url("https", "host", "/wiki"), tenant |-> TRUE, probe |-> TRUE,
     spaces |-> {Space1, Space2}, pagesize |-> 2,
     labels |-> [p \in PageIds |-> <<>>], labelDelete |-> "global", barePrefix |-> FALSE,
     absoluteLinks |-> FALSE,
     props |-> [p \in PageIds |-> <<>>], nextId |-> 1,
     attachments |-> [p \in PageIds |-> <<>>], trashFirst |-> TRUE,
     pages |-> [p \in PageIds |-> Page("Guide", "<p>old</p>", 1)]]

Outcome(w) == [ok |-> w.ok, exc |-> w.exc, val |-> w.val]

(***************************************************************************)
(* SpecSession: building the connection properties and opening a session.  *)
(***************************************************************************)
ConfigInputs ==
    [api_url : {NoUrl, Url("https", "gateway", "/proxy/")},
     domain : {None, "", "host", "https://host"},
     base_path : {None, "/wiki/", "wiki", "/wiki"},
     space_key : {None},
     api_key : {None, "secret"},
     deployment_type : {None, "cloud", "Cloud", "datacenter", "DataCenter", "server", "SERVER", "OnPrem"}]

SiteRemotes ==
    {[RemoteDefault EXCEPT !.v2 = v, !.base = b, !.tenant = t, !.probe = pr, !.spaces = sp] :
        v \in BOOLEAN, b \in {NoUrl, Url("https", "host", "/wiki"), Url("https", "host", "/wiki/"),
              Url("https", "intranet", "/confluence")},
        t \in BOOLEAN, pr \in BOOLEAN, sp \in {{}, {Space1}}}

InitSession ==
    /\ input \in ConfigInputs
    /\ remote \in SiteRemotes
    /\ session = "none"
    /\ api_version = None
    /\ api_url = NoUrl
    /\ site = NoSite
    /\ _space_id_to_key = EmptyMap
    /\ _space_key_to_id = EmptyMap
    /\ properties = Unset
    /\ call = NoCall
    /\ log = <<>>
    /\ ret = NoRet

\* ConfluenceConnectionProperties(...)
Configure ==
    /\ properties = Unset
    /\ call.op = "none"
    /\ properties' = ConfluenceConnectionProperties(input)
    /\ call' = [op |-> "ConfluenceConnectionProperties"]
    /\ ret' = [ok |-> properties'.ok, exc |-> properties'.exc, val |-> None]
    /\ log' = <<>>
    /\ UNCHANGED <<input, session, api_version, api_url, site, cacheVars, remote>>

\* ConfluenceAPI.__enter__: ConfluenceSession(...)
Open ==
    /\ properties.ok
    /\ session = "none"
    /\ \E fuel \in 0..MaxFuel :
        Bind(ConfluenceSession_init(World(remote, EmptyMap, EmptyMap, fuel), properties.val), LAMBDA w :
            /\ session' = IF w.ok THEN "open" ELSE "failed"
            /\ api_version' = w.val.api_version
            /\ api_url' = w.val.api_url
            /\ site' = w.val.site
            /\ remote' = w.remote
            /\ log' = w.log
            /\ ret' = [ok |-> w.ok, exc |-> w.exc, val |-> None])
    /\ call' = [op |-> "ConfluenceSession"]
    /\ UNCHANGED <<input, cacheVars, properties>>

Close_reset ==
    /\ session = "open"
    /\ call.op # "close"
    /\ call' = [op |-> "close"]
    /\ log' = <<>>
    /\ ret' = NoRet
    /\ api_url' = NoUrl
    /\ UNCHANGED <<input, session, api_version, site, properties, cacheVars, remote>>

\* ConfluenceSession.close: the HTTP session is replaced; no field of the model changes.
Close ==
    /\ session = "open"
    /\ call.op # "close"
    /\ call' = [op |-> "close"]
    /\ log' = <<>>
    /\ ret' = NoRet
    /\ UNCHANGED <<input, sessionVars, cacheVars, remote>>

NextSession == Configure \/ Open \/ Close

SpecSession == InitSession /\ [][NextSession]_vars

\* C1: for every accepted deployment hint, session construction resolves the
\* generation by the table: datacenter, server -> rest/api (VERSION_1);
\* cloud, no hint -> api/v2 (VERSION_2).
C1_GenerationTable ==
    (properties.ok /\ session # "none") =>
        /\ properties.val.deployment_type \in {None, "cloud", "datacenter", "server"}
        /\ (properties.val.deployment_type \in {"datacenter", "server"} => api_version = "rest/api")
        /\ (properties.val.deployment_type \in {"cloud", None} => api_version = "api/v2")

C1_Witness ==
    /\ session = "open"
    /\ properties.ok
    /\ properties.val.deployment_type = "server"
    /\ api_version = VERSION_1

\* C25: ConfluenceConnectionProperties rejects with ArgumentError a
\* configuration without a credential (API key), one with neither a host nor
\* an explicit API root, and one whose base path does not both start and end
\* with "/"; every configuration it accepts has a credential and a host or an
\* API root.
C25_MandatoryFields ==
    properties # Unset =>
        /\ Falsy(input.api_key) => (~properties.ok /\ properties.exc = "ArgumentError")
        /\ (input.api_url = NoUrl /\ Falsy(input.domain)) =>
                (~properties.ok /\ properties.exc = "ArgumentError")
        /\ (~Falsy(input.base_path) /\ ~(StartsWithSlash(input.base_path) /\ EndsWithSlash(input.base_path))) =>
                (~properties.ok /\ properties.exc = "ArgumentError")
        /\ properties.ok =>
                /\ ~Falsy(properties.val.api_key)
                /\ properties.val.api_url # NoUrl \/ ~Falsy(properties.val.domain)

\* a configuration with credential and host was refused for its base path
C25_Witness ==
    /\ call.op = "ConfluenceConnectionProperties"
    /\ input.api_key = "secret" /\ input.domain = "host" /\ input.base_path = "/wiki"
    /\ input.deployment_type = None
    /\ ~properties.ok /\ properties.exc = "ArgumentError"

\* C18: when no API root is supplied and the modern generation is selected,
\* any HTTP failure of the tenant-discovery request or of the scoped-root probe
\* makes session construction fall back to the classic root
\* https://{host}{basePath}; construction does not raise and the session is
\* open.  The scoped root is the final API root only if both the discovery
\* request and the probe succeeded.
C18_FallBackToClassic ==
    (/\ call.op = "ConfluenceSession"
     /\ properties.val.api_url = NoUrl
     /\ api_version = VERSION_2)
        => (/\ session = "open" /\ ret.ok
            /\ Len(log) \in {1, 2}
            /\ IF \A i \in DOMAIN log : log[i].ok
               THEN Len(log) = 2 /\ api_url = ScopedRoot("c1")
               ELSE api_url = ClassicRoot(properties.val.domain, properties.val.base_path))

\* the probe of the scoped root failed and the session is open on the classic root
C18_Witness ==
    /\ call.op = "ConfluenceSession"
    /\ properties.val.api_url = NoUrl
    /\ api_version = VERSION_2
    /\ session = "open"
    /\ Len(log) = 2 /\ log[1].ok /\ ~log[2].ok
    /\ log[2].root = ScopedRoot("c1")
    /\ api_url = ClassicRoot("host", "/wiki/")

C33_LegacyRootWithoutRequest ==
    (/\ call.op = "ConfluenceSession"
     /\ properties.val.api_url = NoUrl
     /\ api_version = VERSION_1)
        => (/\ session = "open" /\ ret.ok
            /\ log = <<>>
            /\ api_url = Url("https", properties.val.domain, properties.val.base_path)
            /\ site.domain = properties.val.domain /\ site.base_path = properties.val.base_path)

\* a server configuration without API root is open on the classic root, the site never asked
C33_Witness ==
    /\ call.op = "ConfluenceSession"
    /\ input.api_url = NoUrl /\ input.deployment_type = "SERVER" /\ input.base_path = None
    /\ session = "open" /\ api_version = VERSION_1
    /\ log = <<>>
    /\ api_url = Url("https", "host", "/wiki/")


\* the requests of a construction on an explicit API root: none when host and
\* base path are configured, else one listing of a single space on the
\* endpoint of the generation, sent to that root; the root is adopted as it is
C34_AdoptedWithoutProbe ==
    (call.op = "ConfluenceSession" /\ properties.val.api_url # NoUrl) =>
        /\ session = "open" => api_url = properties.val.api_url
        /\ Len(log) = (IF Falsy(properties.val.domain) \/ Falsy(properties.val.base_path) THEN 1 ELSE 0)
        /\ \A i \in DOMAIN log :
            /\ log[i].method = "GET" /\ log[i].root = properties.val.api_url
            /\ log[i].api = api_version
            /\ log[i].path = (IF api_version = VERSION_1 THEN <<"space">> ELSE <<"spaces">>)
            /\ log[i].query = [limit |-> "1"]

\* C34: when an explicit API root is supplied, session construction adopts it
\* unchanged and sends no tenant-discovery or probe request; it sends at most
\* one request, a space listing with limit=1 on the endpoint of the selected
\* generation, and only when host or base path is not configured; then only
\* the value that is not configured is inferred: a host or a base path that
\* the caller supplied is the one the session keeps.
C34_ExplicitRootAdopted ==
    /\ C34_AdoptedWithoutProbe
    /\ (call.op = "ConfluenceSession" /\ properties.val.api_url # NoUrl /\ session = "open") =>
        /\ ~Falsy(properties.val.domain) => site.domain = properties.val.domain
        /\ ~Falsy(properties.val.base_path) => site.base_path = properties.val.base_path


Start(fuel) == World(remote, _space_id_to_key, _space_key_to_id, fuel)

Finish(w) ==
    /\ remote' = w.remote
    /\ _space_id_to_key' = w.idk
    /\ _space_key_to_id' = w.kid
    /\ log' = w.log
    /\ ret' = Outcome(w)
    /\ UNCHANGED <<input, sessionVars>>

OpenSession(version, root) ==
    /\ session = "open"
    /\ api_version = version
    /\ api_url = root
    /\ site = [domain |-> "host", base_path |-> "/wiki/", space_key |-> None]
    /\ properties = Unset
    /\ _space_id_to_key = EmptyMap
    /\ _space_key_to_id = EmptyMap
    /\ call = NoCall
    /\ log = <<>>
    /\ ret = NoRet

(***************************************************************************)
(* SpecSpace: space lookups on an open session of either generation.       *)
(***************************************************************************)
SpaceKeys == {"DOCS", "OPS", "NOPE"}

SpaceIds == {"65537", "98306", "777"}

InitSpace ==
    /\ input = [none |-> None]
    /\ \E version \in {VERSION_1, VERSION_2} :
        /\ OpenSession(version, ClassicRoot("host", "/wiki/"))
        /\ remote = [RemoteDefault EXCEPT !.v2 = (version = VERSION_2)]

SpaceKeyToId ==
    \E key \in SpaceKeys, fuel \in 0..MaxFuel :
        /\ call' = [op |-> "space_key_to_id", key |-> key, hit |-> key \in DOMAIN _space_key_to_id]
        /\ Finish(space_key_to_id(Start(fuel), key))

SpaceIdToKey ==
    \E id \in SpaceIds, fuel \in 0..MaxFuel :
        /\ call' = [op |-> "space_id_to_key", id |-> id, hit |-> id \in DOMAIN _space_id_to_key]
        /\ Finish(space_id_to_key(Start(fuel), id))

NextSpace == SpaceKeyToId \/ SpaceIdToKey

SpecSpace == InitSpace /\ [][NextSpace]_vars

\* C2: under the legacy generation, space_id_to_key for an id that is not in
\* the cache raises ConfluenceError without any request; a space_id_to_key(id)
\* that follows a successful space_key_to_id(key) = id returns key from the
\* cache without any request.
C2_ColdRaises ==
    (api_version = VERSION_1 /\ call.op = "space_id_to_key" /\ ~call.hit) =>
        (~ret.ok /\ ret.exc = "ConfluenceError" /\ log = <<>>)

C2_WarmStep ==
    (/\ api_version = VERSION_1
     /\ call.op = "space_key_to_id" /\ ret.ok
     /\ call'.op = "space_id_to_key" /\ call'.id = ret.val)
        => (ret'.ok /\ ret'.val = call.key /\ log' = <<>>)

C2_SpaceCacheAsymmetry == []C2_ColdRaises /\ [][C2_WarmStep]_vars

C2_Witness ==
    /\ api_version = VERSION_1
    /\ call.op = "space_id_to_key" /\ call.hit
    /\ ret.ok /\ ret.val = "DOCS" /\ log = <<>>

\* C20: the two space caches are mutually inverse after any sequence of space
\* lookups in either generation: id-to-key holds key k for id i if and only if
\* key-to-id holds i for k.
C20_CachesInverse ==
    /\ \A i \in DOMAIN _space_id_to_key :
            /\ _space_id_to_key[i] \in DOMAIN _space_key_to_id
            /\ _space_key_to_id[_space_id_to_key[i]] = i
    /\ \A k \in DOMAIN _space_key_to_id :
            /\ _space_key_to_id[k] \in DOMAIN _space_id_to_key
            /\ _space_id_to_key[_space_key_to_id[k]] = k

(***************************************************************************)
(* SpecFetchV1: the legacy pagination walk over a listing of input.n       *)
(* labels of a page.                                                       *)
(***************************************************************************)
MaxItems == 410

Label(i) == [id |-> IntToStr(i), name |-> "label" \o IntToStr(i), prefix |-> "global"]

ItemsV1(n) == [i \in 1..n |-> LabelJsonV1(Label(i))]

Items(n) == [i \in 1..n |-> Label(i)]

LabelPathV1(page_id) == <<"content", page_id, "label">>

LabelPathV2(page_id) == <<"pages", page_id, "labels">>

InitFetchV1 ==
    /\ \E n \in 0..MaxItems :
        /\ input = [n |-> n]
        /\ remote = [RemoteDefault EXCEPT !.v2 = FALSE, !.labels = [p \in PageIds |-> Items(n)]]
    /\ OpenSession(VERSION_1, ClassicRoot("host", "/wiki/"))

FetchV1 ==
    \E fuel \in 0..MaxFuel :
        /\ call' = [op |-> "_fetch_v1", path |-> LabelPathV1("101")]
        /\ Finish(_fetch_v1(Start(fuel), LabelPathV1("101"), NoQuery))

NextFetchV1 == FetchV1

SpecFetchV1 == InitFetchV1 /\ [][NextFetchV1]_vars

\* C7: _fetch_v1 asks for the pages at start = 0, 200, 400, ... with limit = 200,
\* appends each page's results in order and stops after the first page that
\* reports fewer than 200 results: a listing of N items takes N div 200 + 1
\* fetches (2 for 250 items) and every item is returned once, in order.
C7_LegacyPagination ==
    call.op = "_fetch_v1" =>
        /\ \A i \in 1..Len(log) :
            /\ log[i].method = "GET" /\ log[i].api = VERSION_1 /\ log[i].path = call.path
            /\ log[i].query.start = IntToStr((i - 1) * 200)
            /\ log[i].query.limit = "200"
        /\ ret.ok =>
            /\ Len(log) = (input.n \div 200) + 1
            /\ ret.val = ItemsV1(input.n)
            /\ input.n = 250 => Len(log) = 2

C7_Witness ==
    /\ call.op = "_fetch_v1" /\ ret.ok /\ input.n = 250
    /\ Len(log) = 2 /\ log[2].query.start = "200" /\ Len(ret.val) = 250

(***************************************************************************)
(* SpecFetchV2: the modern pagination walk over a listing of input.n       *)
(* labels that the service cuts into pages of remote.pagesize.             *)
(***************************************************************************)
MaxItemsV2 == 9

MaxPageSize == 3

\* the number of pages the service makes of n items (an empty listing is one empty page)
PageCount(n, size) == IF n = 0 THEN 1 ELSE (n + size - 1) \div size

\* the requests of a log that went to a `next` link
LinksFollowed(l) == SelectSeq(l, LAMBDA q : "cursor" \in DOMAIN q.query)

InitFetchV2 ==
    /\ \E n \in 0..MaxItemsV2, size \in 1..MaxPageSize :
        /\ input = [n |-> n]
        /\ remote = [RemoteDefault EXCEPT !.labels = [p \in PageIds |-> Items(n)], !.pagesize = size]
    /\ \E root \in {ClassicRoot("host", "/wiki/"), ScopedRoot("c1")} :
        OpenSession(VERSION_2, root)

FetchV2 ==
    \E fuel \in 0..MaxFuel :
        /\ call' = [op |-> "_fetch_v2", path |-> LabelPathV2("101")]
        /\ Finish(_fetch_v2(Start(fuel), LabelPathV2("101"), NoQuery))

NextFetchV2 == FetchV2

SpecFetchV2 == InitFetchV2 /\ [][NextFetchV2]_vars

InitWalk == InitFetchV1 \/ InitFetchV2

WalkV1 == api_version = VERSION_1 /\ FetchV1

WalkV2 == api_version = VERSION_2 /\ FetchV2

NextWalk == WalkV1 \/ WalkV2

SpecWalk == InitWalk /\ [][NextWalk]_vars

\* C32: both pagination walks terminate.  Over a listing of N items that does
\* not change, _fetch_v1 returns after at most N div 200 + 1 page requests and
\* _fetch_v2 after at most as many requests as the listing has pages; every
\* call, whatever the call before it did, starts at the first page again and
\* walks the whole listing.
C32_Step ==
    /\ remote' = remote
    /\ call'.op = "_fetch_v1" =>
        /\ Len(log') \in 1..((input.n \div limit) + 1)
        /\ log'[1].query.start = "0"
        /\ \A i \in 1..(Len(log') - 1) : log'[i].ok
        /\ ret'.ok => (Len(log') = (input.n \div limit) + 1 /\ ret'.val = ItemsV1(input.n))
    /\ call'.op = "_fetch_v2" =>
        /\ Len(log') \in 1..PageCount(input.n, remote.pagesize)
        /\ log'[1].root = api_url /\ log'[1].query = NoQuery
        /\ \A i \in 1..(Len(log') - 1) : log'[i].ok
        /\ ret'.ok => (Len(log') = PageCount(input.n, remote.pagesize) /\ ret'.val = Items(input.n))

C32_WalksTerminate == [][C32_Step]_vars

\* a legacy walk of three pages came to its end
C32_Witness ==
    /\ call.op = "_fetch_v1" /\ ret.ok
    /\ input.n = 2 * limit
    /\ Len(log) = 3 /\ log[1].query.start = "0" /\ log[3].query.start = "400"
    /\ Len(ret.val) = input.n


(***************************************************************************)
(* SpecLinks: the modern pagination walk over a service that hands out     *)
(* `next` links relative to its host, or absolute ones.                    *)
(***************************************************************************)
InitLinks ==
    /\ \E n \in 0..MaxItemsV2, size \in 1..MaxPageSize, absolute \in BOOLEAN :
        /\ input = [n |-> n]
        /\ remote = [RemoteDefault EXCEPT !.labels = [p \in PageIds |-> Items(n)], !.pagesize = size,
                                          !.absoluteLinks = absolute]
    /\ \E root \in {ClassicRoot("host", "/wiki/"), ScopedRoot("c1")} :
        OpenSession(VERSION_2, root)

NextLinks == FetchV2

SpecLinks == InitLinks /\ [][NextLinks]_vars

\* C39: in modern pagination each follow-up request targets the page that the
\* `next` link of the response before it designates, be the link absolute or
\* relative: it goes to the service's host, to the path of the link, with the
\* cursor of the link.
C39_FollowsNextLink ==
    call.op = "_fetch_v2" =>
        \A i \in 2..Len(log) :
            /\ log[i - 1].ok
            /\ log[i].method = "GET"
            /\ log[i].root = Url("https", remote.base.netloc, "/wiki/")
            /\ log[i].api = VERSION_2 /\ log[i].path = call.path
            /\ log[i].query = [cursor |-> IntToStr((i - 1) * remote.pagesize)]


(***************************************************************************)
(* SpecMap: the legacy page mappers applied to a page response (input).    *)
(***************************************************************************)
MaxAncestors == 2

AncestorEntries == {[id |-> JStr("7")], [id |-> JInt(8)], [id |-> JStr("9")], [title |-> JStr("Home")]}

AncestorLists ==
    {JNull} \cup {JList(l) : l \in UNION {[1..n -> AncestorEntries] : n \in 0..MaxAncestors}}

PageResponses ==
    {id @@ ti @@ st @@ sp @@ an @@ ve @@ hi @@ cd :
        id \in {EmptyMap, [id |-> JStr("101")], [id |-> JInt(101)]},
        ti \in {EmptyMap, [title |-> JStr("Guide")]},
        hi \in {EmptyMap, [history |-> [createdBy |-> [accountId |-> JStr("u7")]]]},
        cd \in {EmptyMap, [createdDate |-> JStr("2024-01-02T03:04:05Z")]},
        st \in {EmptyMap, [status |-> JStr("current")]},
        sp \in {EmptyMap, [space |-> [id |-> JInt(65537), key |-> JStr("DOCS")]]},
        an \in {EmptyMap} \cup {[ancestors |-> a] : a \in AncestorLists},
        ve \in {EmptyMap, [version |-> [number |-> 3]]}}

InitMap ==
    /\ input \in PageResponses
    /\ session = "none" /\ api_version = None /\ api_url = NoUrl /\ site = NoSite
    /\ _space_id_to_key = EmptyMap /\ _space_key_to_id = EmptyMap
    /\ properties = Unset
    /\ remote = RemoteDefault
    /\ call = NoCall /\ log = <<>> /\ ret = NoRet

MapPage ==
    /\ call' = [op |-> "map_page_v1_to_domain"]
    /\ ret' = map_page_v1_to_domain(input)
    /\ UNCHANGED <<input, sessionVars, cacheVars, remote, log>>

MapPageProperties ==
    /\ call' = [op |-> "map_page_properties_v1_to_domain"]
    /\ ret' = map_page_properties_v1_to_domain(input)
    /\ UNCHANGED <<input, sessionVars, cacheVars, remote, log>>

NextMap == MapPage \/ MapPageProperties

SpecMap == InitMap /\ [][NextMap]_vars

\* C9: a legacy page response mapped by map_page_v1_to_domain or by
\* map_page_properties_v1_to_domain gets as parentId the id of the last entry
\* of its ancestors list when the list is not empty, and None when the list is
\* empty, null or missing.
C9_ParentIsLastAncestor ==
    (call.op \in {"map_page_v1_to_domain", "map_page_properties_v1_to_domain"} /\ ret.ok) =>
        IF Has(input, "ancestors") /\ input.ancestors.t = "list" /\ Len(input.ancestors.v) > 0
        THEN ret.val.parentId = str(input.ancestors.v[Len(input.ancestors.v)].id)
        ELSE ret.val.parentId = None

C9_Witness ==
    /\ call.op = "map_page_properties_v1_to_domain" /\ ret.ok
    /\ Has(input, "ancestors") /\ input.ancestors = JList(<<[id |-> JStr("7")], [id |-> JInt(8)]>>)
    /\ ret.val.parentId = "8"

\* the response has the members the mappers index without a default
Required(v1_response) ==
    /\ Has(v1_response, "id") /\ Has(v1_response, "title") /\ Has(v1_response, "status")
    /\ Has(v1_response, "space") /\ Has(v1_response.space, "id")

\* the ancestors member is missing, null or empty, or its last entry has an id
LastAncestorHasId(v1_response) ==
    (Has(v1_response, "ancestors") /\ Truthy(v1_response.ancestors)) =>
        Has(v1_response.ancestors.v[Len(v1_response.ancestors.v)], "id")

\* C22 (as stated): the legacy page mappers raise an error when the response
\* lacks id, title or status, and return a page for every response that
\* carries id, title, status and a space id.
C22_PageForEveryRequired ==
    call.op \in {"map_page_v1_to_domain", "map_page_properties_v1_to_domain"} =>
        /\ (~Has(input, "id") \/ ~Has(input, "title") \/ ~Has(input, "status")) => ~ret.ok
        /\ Required(input) => ret.ok

\* C22 (amended): the legacy page mappers raise KeyError, and substitute no
\* default, when the response lacks id, title, status or the id of its space,
\* or when its ancestors list is not empty and the last entry has no id; in
\* every other case they return a page that carries the id, title and status
\* of the response.
C22_PageOrKeyError ==
    call.op \in {"map_page_v1_to_domain", "map_page_properties_v1_to_domain"} =>
        IF Required(input) /\ LastAncestorHasId(input)
        THEN /\ ret.ok
             /\ ret.val.id = str(input.id) /\ ret.val.title = str(input.title)
             /\ ret.val.status = str(input.status) /\ ret.val.spaceId = str(input.space.id)
        ELSE ~ret.ok /\ ret.exc = "KeyError" /\ ret.val = None

\* a response without status, otherwise complete, was refused
C22_Witness ==
    /\ call.op = "map_page_properties_v1_to_domain"
    /\ Has(input, "id") /\ Has(input, "title") /\ ~Has(input, "status") /\ Has(input, "space")
    /\ ~ret.ok /\ ret.exc = "KeyError"

\* C23: the legacy page mappers set every field the legacy wire format does
\* not provide (parentType, position, ownerId, lastOwnerId) to an explicit
\* unknown value, None or "unknown", whatever the response holds; no such
\* field takes a value from another member of the response.
C23_AbsentFieldsUnknown ==
    (call.op \in {"map_page_v1_to_domain", "map_page_properties_v1_to_domain"} /\ ret.ok) =>
        /\ ret.val.parentType = None
        /\ ret.val.position = None
        /\ ret.val.lastOwnerId = None
        /\ ret.val.ownerId \in {None, "unknown"}

(***************************************************************************)
(* SpecReconcile: update_labels and update_content_properties_for_page,    *)
(* called again and again with the caller's lists (input) on page 101 of   *)
(* either generation.                                                      *)
(***************************************************************************)
MaxDesired == 3

\* the lists of at most n elements of S without a repeated element
ListsUpTo(S, n) ==
    {l \in UNION {[1..k -> S] : k \in 0..n} : \A i, j \in DOMAIN l : i # j => l[i] # l[j]}

LabelUniverse ==
    {ConfluenceLabel("a", "global"), ConfluenceLabel("b", "global"), ConfluenceLabel("c", "global"),
     ConfluenceLabel("a", "my")}

DesiredLabels ==
    ListsUpTo(LabelUniverse, MaxDesired)
        \cup {<<ConfluenceLabel("docs", "global"), ConfluenceLabel("wiki", "global")>>,
              <<ConfluenceLabel("b", "global"), ConfluenceLabel("a", "global"), ConfluenceLabel("b", "global")>>}

Stored(l) == [id |-> LabelId(l), name |-> l.name, prefix |-> l.prefix]

RemoteLabels ==
    {<<>>,
     <<Stored(ConfluenceLabel("a", "my"))>>,
     <<Stored(ConfluenceLabel("c", "global")), Stored(ConfluenceLabel("a", "global"))>>,
     <<Stored(ConfluenceLabel("a", "global")), Stored(ConfluenceLabel("a", "my")),
       Stored(ConfluenceLabel("b", "global"))>>}

ConfluenceContentProperty(key, value) == [key |-> key, value |-> value]

PropertyUniverse ==
    {ConfluenceContentProperty("author", "ann"), ConfluenceContentProperty("author", "bob"),
     ConfluenceContentProperty("build", "ann"), ConfluenceContentProperty("color", "ann")}

DesiredProperties == ListsUpTo(PropertyUniverse, MaxDesired)

StoredProperty(id, key, value, number) ==
    [id |-> id, key |-> key, value |-> value, version |-> [number |-> number]]

RemoteProperties ==
    {<<>>,
     <<StoredProperty("11", "build", "ann", 1)>>,
     <<StoredProperty("12", "color", "bob", 2), StoredProperty("11", "author", "ann", 1)>>,
     <<StoredProperty("11", "author", "bob", 1), StoredProperty("12", "build", "ann", 3),
       StoredProperty("13", "color", "ann", 1)>>}

InitReconcile ==
    /\ \E version \in {VERSION_1, VERSION_2}, keep_existing \in BOOLEAN :
        /\ OpenSession(version, ClassicRoot("host", "/wiki/"))
        /\ \/ \E labels \in DesiredLabels, found \in RemoteLabels, mode \in {"global", "named"},
                   bare \in {FALSE, version = VERSION_1} :
                /\ input = [labels |-> labels, props |-> <<>>, keep_existing |-> keep_existing]
                /\ remote = [RemoteDefault EXCEPT !.v2 = (version = VERSION_2),
                                                  !.labels = [p \in PageIds |-> found],
                                                  !.labelDelete = mode,
                                                  !.barePrefix = bare]
           \/ \E props \in DesiredProperties, found \in RemoteProperties :
                /\ input = [labels |-> <<>>, props |-> props, keep_existing |-> keep_existing]
                /\ remote = [RemoteDefault EXCEPT !.v2 = (version = VERSION_2),
                                                  !.props = [p \in PageIds |-> found],
                                                  !.nextId = 21]

UpdateLabels ==
    \E fuel \in 0..MaxFuel :
        /\ call' = [op |-> "update_labels", page_id |-> "101"]
        /\ Finish(update_labels(Start(fuel), "101", input.labels, input.keep_existing))

UpdateProperties ==
    \E fuel \in 0..MaxFuel :
        /\ call' = [op |-> "update_content_properties_for_page", page_id |-> "101"]
        /\ Finish(update_content_properties_for_page(Start(fuel), "101", input.props, input.keep_existing))

NextReconcile == UpdateLabels \/ UpdateProperties

SpecReconcile == InitReconcile /\ [][NextReconcile]_vars

DocsWiki == <<ConfluenceLabel("docs", "global"), ConfluenceLabel("wiki", "global")>>

\* C3: label reconciliation is idempotent.  update_labels with the desired
\* labels (docs, global), (wiki, global) on a page without labels adds exactly
\* those two labels, and whenever update_labels(keep_existing=False) has
\* succeeded, an immediate second call with the same list sends no mutating
\* request.
C3_FirstRun ==
    (/\ input.labels = DocsWiki /\ remote.labels["101"] = <<>>
     /\ call'.op = "update_labels" /\ ret'.ok)
        => (/\ Len(Writes(log')) = 1
            /\ Writes(log')[1].method = "POST" /\ Writes(log')[1].body = DocsWiki
            /\ {LabelKey(l) : l \in Range(remote'.labels["101"])} = Range(DocsWiki))

C3_SecondRun ==
    (/\ call.op = "update_labels" /\ ret.ok /\ ~input.keep_existing
     /\ call'.op = "update_labels")
        => Writes(log') = <<>>

C3_LabelsIdempotent == [][C3_FirstRun /\ C3_SecondRun]_vars

\* the docs / wiki example of C3 alone: the rerun after the first run is quiet
C3_Example ==
    (/\ input.labels = DocsWiki
     /\ call.op = "update_labels" /\ ret.ok /\ Len(Writes(log)) = 1
     /\ call'.op = "update_labels")
        => Writes(log') = <<>>

C3_ExampleHolds == [][C3_FirstRun /\ C3_Example]_vars

Arrangements(S) == {l \in [1..Cardinality(S) -> S] : Range(l) = S}

Ascending(l, Less(_, _)) == \A i, j \in DOMAIN l : i < j => Less(l[i], l[j])

IsPrefix(a, b) == Len(a) <= Len(b) /\ \A i \in DOMAIN a : a[i] = b[i]

MethodRank(m) == CASE m = "POST" -> 1 [] m = "DELETE" -> 2 [] m = "PUT" -> 3

\* the key of the property a write request is about (the modern DELETE names it by id)
RequestKey(q, props) ==
    IF q.method = "DELETE"
    THEN (IF q.api = VERSION_1 THEN q.path[4]
          ELSE props[CHOOSE i \in DOMAIN props : props[i].id = q.path[4]].key)
    ELSE q.body.key

\* C4: reconciliation issues its operations in ascending order of natural key
\* whatever the order of the input list.  Labels: the list posted is ascending
\* by (name, prefix), the DELETE requests that follow go through the labels to
\* remove in ascending (name, prefix) order; desired b, a, c on a page without
\* labels are posted as a, b, c.  Properties: the POSTs, then the DELETEs, then
\* the PUTs, each group in ascending key order.
C4_Labels ==
    call'.op = "update_labels" =>
        /\ \A i \in DOMAIN Writes(log') :
            /\ Writes(log')[i].method = "POST" => (i = 1 /\ Ascending(Writes(log')[i].body, LabelLess))
            /\ Writes(log')[i].method \in {"POST", "DELETE"}
        /\ \E r \in Arrangements({LabelKey(l) : l \in Range(remote.labels["101"])} \ Range(input.labels)) :
            /\ Ascending(r, LabelLess)
            /\ IsPrefix(Map(SelectSeq(log', LAMBDA q : q.method = "DELETE"), LAMBDA q : q.query.name),
                        Map(r, LAMBDA l : l.name))
        /\ (/\ input.labels = <<ConfluenceLabel("b", "global"), ConfluenceLabel("a", "global"),
                                ConfluenceLabel("c", "global")>>
            /\ remote.labels["101"] = <<>> /\ log'[Len(log')].method = "POST")
                => log'[Len(log')].body = <<ConfluenceLabel("a", "global"), ConfluenceLabel("b", "global"),
                                            ConfluenceLabel("c", "global")>>

C4_Properties ==
    call'.op = "update_content_properties_for_page" =>
        \A i, j \in DOMAIN Writes(log') : i < j =>
            \/ MethodRank(Writes(log')[i].method) < MethodRank(Writes(log')[j].method)
            \/ /\ Writes(log')[i].method = Writes(log')[j].method
               /\ StrLess(RequestKey(Writes(log')[i], remote.props["101"]),
                          RequestKey(Writes(log')[j], remote.props["101"]))

C4_AscendingOrder == [][C4_Labels /\ C4_Properties]_vars

C4_Witness ==
    /\ call.op = "update_labels" /\ ret.ok
    /\ input.labels = <<ConfluenceLabel("b", "global"), ConfluenceLabel("a", "global"), ConfluenceLabel("c", "global")>>
    /\ Len(log) = 2 /\ log[2].method = "POST"
    /\ log[2].body = <<ConfluenceLabel("a", "global"), ConfluenceLabel("b", "global"), ConfluenceLabel("c", "global")>>

(***************************************************************************)
(* SpecPage: reading and updating page 101 (space DOCS) on an open session *)
(* of either generation, with the space lookups a caller may make between. *)
(***************************************************************************)
MaxVersion == 3

Titles == {"Guide", "Manual"}

Contents == {"<p>old</p>", "<p>new</p>"}

InitPage ==
    /\ input = [none |-> None]
    /\ \E version \in {VERSION_1, VERSION_2}, number \in 1..2 :
        /\ OpenSession(version, ClassicRoot("host", "/wiki/"))
        /\ remote = [RemoteDefault EXCEPT !.v2 = (version = VERSION_2),
                                          !.pages = [p \in PageIds |-> Page("Guide", "<p>old</p>", number)]]

GetPageVersion ==
    \E fuel \in 0..MaxFuel :
        /\ call' = [op |-> "get_page_version", page_id |-> "101", fuel |-> fuel]
        /\ Finish(get_page_version(Start(fuel), "101"))

UpdatePage ==
    /\ remote.pages["101"].version < MaxVersion
    /\ \E content \in Contents, title \in Titles, version \in 1..MaxVersion, fuel \in 0..MaxFuel :
        /\ call' = [op |-> "update_page", page_id |-> "101", content |-> content, title |-> title,
                    version |-> version, fuel |-> fuel]
        /\ Finish(update_page(Start(fuel), "101", content, title, version))

NextPage == GetPageVersion \/ UpdatePage \/ SpaceKeyToId

SpecPage == InitPage /\ [][NextPage]_vars

\* C6: update_page called with a version the service rejects (not newer than
\* the page's current version) raises and is not retried: the call issues
\* exactly one PUT and leaves the page's content, title and version as they were.
C6_RejectedUpdate ==
    (/\ call'.op = "update_page" /\ call'.fuel = 0
     /\ call'.version <= remote.pages["101"].version)
        => (/\ ~ret'.ok
            /\ Count(log', "PUT") = 1
            /\ remote'.pages = remote.pages)

C6_ConflictRaisesOnePut == [][C6_RejectedUpdate]_vars

\* C10: update_page takes the page's current version and submits version + 1,
\* in both generations: a call that passes the version number just read from
\* the page is accepted by the service, which requires current + 1.  (Stated
\* for the sessions that can resolve the page's space key: every modern
\* session, and a legacy session that has the key in its cache.)
C10_CurrentVersionAccepted ==
    (/\ call.op = "get_page_version" /\ ret.ok
     /\ api_version = VERSION_2 \/ "65537" \in DOMAIN _space_id_to_key
     /\ call'.op = "update_page" /\ call'.fuel = 0 /\ call'.version = ret.val)
        => (/\ ret'.ok
            /\ Count(log', "PUT") = 1
            /\ log'[Len(log')].body.version.number = call'.version + 1
            /\ remote'.pages["101"].version = call'.version + 1)

C10_SubmitsVersionPlusOne == [][C10_CurrentVersionAccepted]_vars

(***************************************************************************)
(* SpecAttach: looking up and uploading attachments of page 101 on an open *)
(* session of either generation.  The page starts without attachments or   *)
(* with a.png (10 bytes) uploaded earlier.                                  *)
(***************************************************************************)
AttachmentNames == {"a.png", "img/b.png"}

Sizes == {10, 20}

Sources ==
    {[attachment_path |-> [name |-> "/tmp/a.png", is_file |-> f, st_size |-> 10], raw_data |-> Absent] :
        f \in BOOLEAN}
    \cup {[attachment_path |-> Absent, raw_data |-> [len |-> n]] : n \in Sizes}
    \cup {[attachment_path |-> Absent, raw_data |-> Absent],
          [attachment_path |-> [name |-> "/tmp/a.png", is_file |-> TRUE, st_size |-> 10],
           raw_data |-> [len |-> 10]]}

InitAttach ==
    /\ input = [none |-> None]
    /\ \E version \in {VERSION_1, VERSION_2}, present \in BOOLEAN :
        /\ OpenSession(version, ClassicRoot("host", "/wiki/"))
        /\ remote = [RemoteDefault EXCEPT
                        !.v2 = (version = VERSION_2),
                        !.nextId = IF present THEN 2 ELSE 1,
                        !.attachments = [p \in PageIds |->
                            IF present
                            THEN <<[id |-> "att1", title |-> "a.png", fileSize |-> 10, mediaType |-> "image/png",
                                    version |-> 1]>>
                            ELSE <<>>]]

GetAttachmentByName ==
    \E filename \in AttachmentNames, fuel \in 0..1 :
        /\ call' = [op |-> "get_attachment_by_name", page_id |-> "101", filename |-> filename, fuel |-> fuel]
        /\ Finish(get_attachment_by_name(Start(fuel), "101", filename))

UploadAttachment ==
    /\ \A i \in DOMAIN remote.attachments["101"] : remote.attachments["101"][i].version < MaxVersion
    /\ \E attachment_name \in AttachmentNames, source \in Sources, force \in BOOLEAN, fuel \in 0..MaxFuel :
        /\ call' = [op |-> "upload_attachment", page_id |-> "101", attachment_name |-> attachment_name,
                    source |-> source, force |-> force, fuel |-> fuel]
        /\ Finish(upload_attachment(Start(fuel), "101", attachment_name, source.attachment_path,
                                    source.raw_data, None, None, force))

NextAttach == GetAttachmentByName \/ UploadAttachment

SpecAttach == InitAttach /\ [][NextAttach]_vars

\* the byte size of the file or raw data a call supplies
Supplied(source) ==
    IF source.attachment_path # Absent THEN source.attachment_path.st_size ELSE source.raw_data.len

\* C5: upload_attachment, in either generation, when an attachment with the
\* given name already exists on the page and its recorded fileSize equals the
\* byte size of the supplied file or raw data: with force=False it issues no
\* write request and returns normally; with force=True it issues exactly one
\* write request.  (Stated for the calls whose requests the service all serves.)
C5_SameSizeUpload ==
    (/\ call'.op = "upload_attachment" /\ call'.fuel = 0
     /\ (call'.source.attachment_path = Absent) # (call'.source.raw_data = Absent)
     /\ call'.source.attachment_path # Absent => call'.source.attachment_path.is_file
     /\ \E i \in DOMAIN remote.attachments["101"] :
            /\ remote.attachments["101"][i].title = call'.attachment_name
            /\ remote.attachments["101"][i].fileSize = Supplied(call'.source))
        => IF call'.force THEN Len(Writes(log')) = 1
           ELSE Writes(log') = <<>> /\ ret'.ok

C5_AttachmentNoOp == [][C5_SameSizeUpload]_vars

\* C12: when upload_attachment finds an existing attachment with the given
\* name and the size differs or force is set, it replaces the binary of that
\* attachment (the page has no more attachments than before) and the
\* attachment's version after the operation is its prior version plus one.
C12_ReplacedOnce ==
    \A i \in DOMAIN remote.attachments["101"] :
        (/\ call'.op = "upload_attachment" /\ call'.fuel = 0
         /\ (call'.source.attachment_path = Absent) # (call'.source.raw_data = Absent)
         /\ call'.source.attachment_path # Absent => call'.source.attachment_path.is_file
         /\ remote.attachments["101"][i].title = call'.attachment_name
         /\ call'.force \/ remote.attachments["101"][i].fileSize # Supplied(call'.source))
            => (/\ Len(remote'.attachments["101"]) = Len(remote.attachments["101"])
                /\ remote'.attachments["101"][i].id = remote.attachments["101"][i].id
                /\ remote'.attachments["101"][i].fileSize = Supplied(call'.source)
                /\ remote'.attachments["101"][i].version = remote.attachments["101"][i].version + 1)

C12_ReplaceIncrementsVersion == [][C12_ReplacedOnce]_vars

(***************************************************************************)
(* SpecTree: creating pages under page 101 (space DOCS) and deleting pages  *)
(* on an open session of either generation, with the space lookups a       *)
(* caller may make between.                                                *)
(***************************************************************************)
MaxPages == 3

ParentIds == {"101", "102", "999"}

InitTree ==
    /\ input = [none |-> None]
    /\ \E version \in {VERSION_1, VERSION_2} :
        /\ OpenSession(version, ClassicRoot("host", "/wiki/"))
        /\ \E trashFirst \in BOOLEAN :
            remote = [RemoteDefault EXCEPT !.v2 = (version = VERSION_2), !.trashFirst = trashFirst]

CreatePage ==
    /\ remote.nextId < MaxPages
    /\ \E parent_id \in ParentIds, title \in Titles, new_content \in Contents, fuel \in 0..MaxFuel :
        /\ call' = [op |-> "create_page", parent_id |-> parent_id, title |-> title,
                    new_content |-> new_content, fuel |-> fuel]
        /\ Finish(create_page(Start(fuel), parent_id, title, new_content))

DeletePage ==
    \E page_id \in ParentIds, purge \in BOOLEAN, fuel \in 0..MaxFuel :
        /\ call' = [op |-> "delete_page", page_id |-> page_id, purge |-> purge, fuel |-> fuel]
        /\ Finish(delete_page(Start(fuel), page_id, purge))

NextTree == CreatePage \/ DeletePage \/ SpaceKeyToId

SpecTree == InitTree /\ [][NextTree]_vars

\* C11: create_page does not depend on any earlier call by the caller: as the
\* first operation of a freshly constructed session of either generation, with
\* an existing parent page (and a title free in the parent's space), it issues
\* the create request and returns the created page with its assigned id and
\* initial version.
C11_FirstCallCreates ==
    (/\ call.op = "none"
     /\ call'.op = "create_page" /\ call'.fuel = 0
     /\ call'.parent_id \in DOMAIN remote.pages
     /\ ~TitleTaken(remote, remote.pages[call'.parent_id].spaceId, call'.title))
        => (/\ ret'.ok
            /\ Count(log', "POST") = 1
            /\ ret'.val.id \notin DOMAIN remote.pages
            /\ ret'.val.id \in DOMAIN remote'.pages
            /\ ret'.val.version.number = 1
            /\ remote'.pages[ret'.val.id].title = call'.title
            /\ remote'.pages[ret'.val.id].parentId = call'.parent_id)

C11_CreateOnFreshSession == [][C11_FirstCallCreates]_vars

\* C13: property reconciliation is idempotent: after
\* update_content_properties_for_page(page, D, keep_existing=False) succeeds,
\* an immediate second call with the same D issues no add, no remove and no
\* update request, and no property of the page changes its version.
C13_SecondPass ==
    (/\ call.op = "update_content_properties_for_page" /\ ret.ok
     /\ ~input.keep_existing
     /\ call'.op = "update_content_properties_for_page")
        => (/\ Writes(log') = <<>>
            /\ remote'.props = remote.props)

C13_PropertiesIdempotent == [][C13_SecondPass]_vars

\* a second pass was made: the first one created properties, the last one wrote nothing
C13_Witness ==
    /\ call.op = "update_content_properties_for_page" /\ ret.ok
    /\ ~input.keep_existing
    /\ Len(input.props) = MaxDesired
    /\ remote.nextId > 21
    /\ \E i \in DOMAIN remote.props["101"] : remote.props["101"][i].version.number > 1
    /\ Len(log) >= 1 /\ Writes(log) = <<>>

\* C14: after update_labels(page, L, keep_existing=False) returns, the page's
\* remote label set, compared as (name, prefix) pairs, equals set(L), for every
\* remote starting set, also when a remote label and a desired label share a
\* name and differ in prefix.
C14_LabelsMatch ==
    (/\ call'.op = "update_labels" /\ ret'.ok
     /\ ~input.keep_existing)
        => {LabelKey(l) : l \in Range(remote'.labels["101"])} = {LabelKey(l) : l \in Range(input.labels)}

C14_RemoteEqualsDesired == [][C14_LabelsMatch]_vars

\* C26: map_label_v1_to_domain keeps the id and the name of the response and
\* uses its prefix, "global" when the response has none; so a remote label
\* listed without a prefix has the natural key of the desired label
\* (name, "global"), and a reconciliation that desires that label neither adds
\* it again nor removes it from the page.
C26_Step ==
    /\ \A l \in Range(remote.labels["101"]) :
            map_label_v1_to_domain(LabelWire(remote, l)) = [id |-> l.id, name |-> l.name, prefix |-> l.prefix]
    /\ (call'.op = "update_labels" /\ api_version = VERSION_1 /\ remote.barePrefix /\ ret'.ok) =>
            \A l \in Range(remote.labels["101"]) :
                (l.prefix = "global" /\ LabelKey(l) \in Range(input.labels)) =>
                    /\ \A i \in DOMAIN log' : log'[i].method = "POST" => LabelKey(l) \notin Range(log'[i].body)
                    /\ l \in Range(remote'.labels["101"])

C26_BareLabelKept == [][C26_Step]_vars

\* the update requests of a call for the property of key k
UpdatesOf(l, k) == SelectSeq(l, LAMBDA q : q.method = "PUT" /\ q.body.key = k)

\* C15: in update_content_properties_for_page, a property whose key is both
\* desired and remote is updated only if its desired value differs from the
\* remote value, and the update submits the remote version number plus one; a
\* property whose value is equal receives no request and keeps its version.
C15_UpdateStep ==
    call'.op = "update_content_properties_for_page" =>
        \A i \in DOMAIN remote.props["101"] :
            remote.props["101"][i].key \in DOMAIN Mapping(input.props) =>
                IF remote.props["101"][i].value = Mapping(input.props)[remote.props["101"][i].key].value
                THEN /\ UpdatesOf(log', remote.props["101"][i].key) = <<>>
                     /\ remote.props["101"][i] \in Range(remote'.props["101"])
                ELSE /\ Len(UpdatesOf(log', remote.props["101"][i].key)) <= 1
                     /\ \A j \in DOMAIN UpdatesOf(log', remote.props["101"][i].key) :
                            UpdatesOf(log', remote.props["101"][i].key)[j].body.version.number
                                = remote.props["101"][i].version.number + 1
                     /\ ret'.ok =>
                            /\ Len(UpdatesOf(log', remote.props["101"][i].key)) = 1
                            /\ [remote.props["101"][i] EXCEPT
                                    !.value = Mapping(input.props)[remote.props["101"][i].key].value,
                                    !.version.number = @ + 1] \in Range(remote'.props["101"])

C15_UpdateOnlyChanged == [][C15_UpdateStep]_vars

\* color is rewritten at version 2 + 1 while author, whose value is the desired one, is left at version 1
C15_Witness ==
    /\ call.op = "update_content_properties_for_page" /\ ret.ok
    /\ ConfluenceContentProperty("author", "ann") \in Range(input.props)
    /\ ConfluenceContentProperty("color", "ann") \in Range(input.props)
    /\ Len(UpdatesOf(log, "color")) = 1
    /\ UpdatesOf(log, "color")[1].body.version.number = 3
    /\ UpdatesOf(log, "author") = <<>>
    /\ StoredProperty("11", "author", "ann", 1) \in Range(remote.props["101"])
    /\ StoredProperty("12", "color", "ann", 3) \in Range(remote.props["101"])

\* C16: with keep_existing=True, update_labels and
\* update_content_properties_for_page issue no delete request: every label or
\* property that was on the page before the call and is not in the desired list
\* is still on the page, unchanged, after the call.
C16_KeepStep ==
    (/\ input.keep_existing
     /\ call'.op \in {"update_labels", "update_content_properties_for_page"})
        => (/\ Count(log', "DELETE") = 0
            /\ \A l \in Range(remote.labels["101"]) :
                    LabelKey(l) \notin Range(input.labels) => l \in Range(remote'.labels["101"])
            /\ \A x \in Range(remote.props["101"]) :
                    x.key \notin DOMAIN Mapping(input.props) => x \in Range(remote'.props["101"]))

C17_DeleteStep ==
    call'.op = "delete_page" =>
        /\ \A i \in DOMAIN log' :
            /\ log'[i].method = "DELETE"
            /\ log'[i].api = api_version
            /\ log'[i].path = <<IF api_version = VERSION_1 THEN "content" ELSE "pages", call'.page_id>>
        /\ Len(log') >= 1 /\ log'[1].query = (IF call'.purge /\ api_version = VERSION_1
                                              THEN [status |-> "trashed"] ELSE NoQuery)
        /\ IF call'.purge /\ api_version = VERSION_2 /\ log'[1].ok
           THEN Len(log') = 2 /\ log'[2].query = [purge |-> "true"]
           ELSE Len(log') = 1

C17_DeleteRequests == [][C17_DeleteStep]_vars

\* a modern purge went through: the page was trashed, then purged
C17_Witness ==
    /\ api_version = VERSION_2
    /\ call.op = "delete_page" /\ call.purge /\ call.page_id = "101" /\ ret.ok
    /\ Len(log) = 2 /\ log[1].ok /\ log[2].ok
    /\ "101" \notin DOMAIN remote.pages

\* the label keys a label write designates: the labels of its body (POST), the
\* labels the service takes its name for (DELETE)
LabelsAddressed(r, q, keys) ==
    IF q.method = "POST" THEN Range(q.body) \cap keys
    ELSE {k \in keys : Designated(r, k, q.query.name)}

\* the write requests of a call that reach the natural key k
WritesTo(l, Reaches(_, _), k) == SelectSeq(Writes(l), LAMBDA q : Reaches(q, k))

\* the three action sets of update_labels as the requests of a call that
\* succeeded show them: one POST of desired minus remote, one DELETE for each
\* label of remote minus desired (none with keep_existing)
C31_LabelSets ==
    (call'.op = "update_labels" /\ ret'.ok) =>
        LET new == Range(input.labels)
            old == {LabelKey(l) : l \in Range(remote.labels["101"])}
            posts == SelectSeq(log', LAMBDA q : q.method = "POST")
            deletes == SelectSeq(log', LAMBDA q : q.method = "DELETE")
        IN  /\ Len(posts) = (IF new \ old = {} THEN 0 ELSE 1)
            /\ \A i \in DOMAIN posts :
                    /\ Range(posts[i].body) = new \ old
                    /\ Len(posts[i].body) = Cardinality(new \ old)
            /\ Map(deletes, LAMBDA q : q.query.name)
                    = (IF input.keep_existing THEN <<>>
                       ELSE Map(sorted_labels(old \ new), LAMBDA l : l.name))
            /\ (new \ old) \cap (old \ new) = {}

\* the same for update_content_properties_for_page: POST for desired minus
\* remote, DELETE for remote minus desired (none with keep_existing), PUT for
\* the keys of both sides whose value differs, and no key with two writes
C31_PropertySets ==
    call'.op = "update_content_properties_for_page" =>
        LET new == DOMAIN Mapping(input.props)
            old == {x.key : x \in Range(remote.props["101"])}
            KeysOf(m) == {RequestKey(Writes(log')[i], remote.props["101"]) :
                            i \in {j \in DOMAIN Writes(log') : Writes(log')[j].method = m}}
        IN  /\ ret'.ok =>
                /\ KeysOf("POST") = new \ old
                /\ KeysOf("DELETE") = (IF input.keep_existing THEN {} ELSE old \ new)
                /\ KeysOf("PUT") = {k \in old \cap new :
                        Mapping(remote.props["101"])[k].value # Mapping(input.props)[k].value}
            /\ KeysOf("POST") \subseteq new \ old
            /\ KeysOf("DELETE") \subseteq old \ new
            /\ KeysOf("PUT") \subseteq old \cap new
            /\ \A k \in old \cup new :
                    Len(WritesTo(log', LAMBDA q, x : RequestKey(q, remote.props["101"]) = x, k)) <= 1

C31_ActionSets == [][C31_LabelSets /\ C31_PropertySets]_vars

\* no label key is reached by two writes of one update_labels call
C31_LabelOnce ==
    call'.op = "update_labels" =>
        \A k \in Range(input.labels) \cup {LabelKey(l) : l \in Range(remote.labels["101"])} :
            Len(WritesTo(log', LAMBDA q, x : x \in LabelsAddressed(remote, q, {x}), k)) <= 1

\* C31: the action sets of a reconciliation are pairwise disjoint, toAdd is
\* desired minus remote, toRemove is remote minus desired, toUpdate is desired
\* intersect remote, by (name, prefix) for labels and by key for properties,
\* and no natural key receives more than one mutating request in one call.
C31_DisjointActionSets == [][C31_LabelSets /\ C31_PropertySets /\ C31_LabelOnce]_vars

(***************************************************************************)
(* SpecCache: the space lookups of both directions on an open session of   *)
(* either generation, with page reads and page updates between them.       *)
(***************************************************************************)
NextCache == GetPageVersion \/ UpdatePage \/ SpaceKeyToId \/ SpaceIdToKey

SpecCache == InitPage /\ [][NextCache]_vars

\* C35: a space cache entry, once made, is never removed or changed while the
\* session lives: whatever operation runs, every entry of both caches is kept
\* as it is, and a space_key_to_id(key) or space_id_to_key(id) whose argument
\* has an entry returns the value of the entry (the value of the first
\* successful lookup) without any request.
C35_Step ==
    /\ \A k \in DOMAIN _space_key_to_id :
            k \in DOMAIN _space_key_to_id' /\ _space_key_to_id'[k] = _space_key_to_id[k]
    /\ \A i \in DOMAIN _space_id_to_key :
            i \in DOMAIN _space_id_to_key' /\ _space_id_to_key'[i] = _space_id_to_key[i]
    /\ (call'.op = "space_key_to_id" /\ call'.key \in DOMAIN _space_key_to_id) =>
            (log' = <<>> /\ ret'.ok /\ ret'.val = _space_key_to_id[call'.key])
    /\ (call'.op = "space_id_to_key" /\ call'.id \in DOMAIN _space_id_to_key) =>
            (log' = <<>> /\ ret'.ok /\ ret'.val = _space_id_to_key[call'.id])
    /\ (call'.op = "space_key_to_id" /\ ret'.ok) => _space_key_to_id'[call'.key] = ret'.val
    /\ (call'.op = "space_id_to_key" /\ ret'.ok) => _space_id_to_key'[call'.id] = ret'.val

C35_CacheEntriesKept == [][C35_Step]_vars

\* both spaces are cached and a lookup of OPS was answered from the cache
C35_Witness ==
    /\ DOMAIN _space_key_to_id = {"DOCS", "OPS"}
    /\ call.op = "space_key_to_id" /\ call.key = "OPS" /\ call.hit
    /\ ret.ok /\ ret.val = "98306" /\ log = <<>>


(***************************************************************************)
(* SpecEnsure: get_or_create_page under page 101 (space DOCS) on an open   *)
(* session of either generation, with page deletions and the space lookups *)
(* a caller may make between.                                              *)
(***************************************************************************)
GetOrCreatePage ==
    /\ remote.nextId < MaxPages
    /\ \E title \in Titles, parent_id \in ParentIds, fuel \in 0..MaxFuel :
        /\ call' = [op |-> "get_or_create_page", title |-> title, parent_id |-> parent_id]
        /\ Finish(get_or_create_page(Start(fuel), title, parent_id))

NextEnsure == GetOrCreatePage \/ DeletePage \/ SpaceKeyToId

SpecEnsure == InitTree /\ [][NextEnsure]_vars

\* the current pages of a title in the space of a parent page
PagesTitled(r, title, parent_id) ==
    {id \in DOMAIN r.pages : /\ r.pages[id].title = title
                             /\ r.pages[id].status = "current"
                             /\ r.pages[id].spaceId = r.pages[parent_id].spaceId}

AllAnswered(l) == \A i \in DOMAIN l : l[i].ok

C36_Existing ==
    (/\ call'.op = "get_or_create_page"
     /\ call'.parent_id \in DOMAIN remote.pages
     /\ Cardinality(PagesTitled(remote, call'.title, call'.parent_id)) = 1
     /\ AllAnswered(log'))
        => (/\ ret'.ok
            /\ Count(log', "POST") = 0
            /\ ret'.val.id \in PagesTitled(remote, call'.title, call'.parent_id)
            /\ remote' = remote)

C36_Twice ==
    (/\ call.op = "get_or_create_page" /\ call' = call
     /\ call.parent_id \in DOMAIN remote.pages
     /\ AllAnswered(log) /\ AllAnswered(log'))
        => (/\ ret.ok /\ ret'.ok
            /\ Count(log, "POST") + Count(log', "POST") <= 1
            /\ ret'.val.id = ret.val.id)

\* C36: get_or_create_page(title, parent_id) creates at most one page: if
\* exactly one page of that title exists in the parent's space it returns that
\* page and sends no create request, and two consecutive calls with the same
\* arguments send at most one create request in total and return the same
\* page id.
C36_AtMostOneCreate == [][C36_Existing /\ C36_Twice]_vars


(***************************************************************************)
(* SpecProperty: removing and updating single content properties of page   *)
(* 101 by id, on an open session of either generation; the id may be one   *)
(* that no property of the page has.                                       *)
(***************************************************************************)
PropertyIds == {"11", "12", "99"}

PropertyUpdates == {ConfluenceContentProperty("author", "bob"), ConfluenceContentProperty("color", "ann")}

InitProperty ==
    /\ input = [none |-> None]
    /\ \E version \in {VERSION_1, VERSION_2}, found \in {l \in RemoteProperties : Len(l) >= 2} :
        /\ OpenSession(version, ClassicRoot("host", "/wiki/"))
        /\ remote = [RemoteDefault EXCEPT !.v2 = (version = VERSION_2),
                                          !.props = [p \in PageIds |-> found],
                                          !.nextId = 21]

RemoveProperty ==
    \E property_id \in PropertyIds, fuel \in 0..MaxFuel :
        /\ call' = [op |-> "remove_content_property_from_page", page_id |-> "101", property_id |-> property_id]
        /\ Finish(remove_content_property_from_page(Start(fuel), "101", property_id))

UpdateProperty ==
    \E property_id \in PropertyIds, version \in 2..MaxVersion, property \in PropertyUpdates,
       fuel \in 0..MaxFuel :
        /\ call' = [op |-> "update_content_property_for_page", page_id |-> "101", property_id |-> property_id,
                    version |-> version, property |-> property]
        /\ Finish(update_content_property_for_page(Start(fuel), "101", property_id, version, property))

NextProperty == RemoveProperty \/ UpdateProperty

SpecProperty == InitProperty /\ [][NextProperty]_vars

\* C37: under the legacy generation, removing or updating a content property
\* by id first lists the properties of the page, to translate the id into its
\* key, and then sends the DELETE or the PUT addressed by that key; if no
\* listed property has the id it raises PageError and sends no write request.
C37_Step ==
    (/\ api_version = VERSION_1
     /\ call'.op \in {"remove_content_property_from_page", "update_content_property_for_page"})
        => (/\ Len(log') >= 1
            /\ log'[1].method = "GET" /\ log'[1].api = VERSION_1
            /\ log'[1].path = <<"content", call'.page_id, "property">>
            /\ IF ~log'[1].ok THEN Len(log') = 1 /\ ~ret'.ok /\ ret'.exc = "HTTPError"
               ELSE IF \E x \in Range(remote.props[call'.page_id]) : x.id = call'.property_id
               THEN /\ Len(log') = 2
                    /\ log'[2].method = (IF call'.op = "remove_content_property_from_page"
                                         THEN "DELETE" ELSE "PUT")
                    /\ log'[2].api = VERSION_1
                    /\ log'[2].path = <<"content", call'.page_id, "property",
                                        (CHOOSE x \in Range(remote.props[call'.page_id]) :
                                            x.id = call'.property_id).key>>
                    /\ call'.op = "update_content_property_for_page" =>
                            log'[2].body = [key |-> call'.property.key, value |-> call'.property.value,
                                            version |-> [number |-> call'.version]]
               ELSE /\ Len(log') = 1 /\ Writes(log') = <<>>
                    /\ ~ret'.ok /\ ret'.exc = "PageError"
                    /\ remote' = remote)

C37_LegacyAddressesByKey == [][C37_Step]_vars

\* a legacy update by id 12 went to the key of that property after the listing
C37_Witness ==
    /\ api_version = VERSION_1
    /\ call.op = "update_content_property_for_page" /\ call.property_id = "12" /\ ret.ok
    /\ Len(log) = 2 /\ log[1].method = "GET" /\ log[2].method = "PUT"
    /\ log[2].path = <<"content", "101", "property", "color">>


(***************************************************************************)
(* SpecLife: the life of one session.  The connection properties are       *)
(* built, the session is constructed against a site that does or does not  *)
(* serve api/v2, operations of every family are called in any order, each  *)
(* with a request that may fail, and the session is closed.                *)
(***************************************************************************)
\* how many ids the service hands out in one life (pages, properties, attachments)
MaxAllocations == 2

LifeInputs ==
    {a \in [api_url : {NoUrl, Url("https", "gateway", "/proxy/")},
            domain : {"host"},
            base_path : {"/wiki/"},
            space_key : {None},
            api_key : {"secret"},
            deployment_type : {None, "datacenter"}] :
        a.api_url = NoUrl \/ a.deployment_type = "datacenter"}

LifeRemotes ==
    {[RemoteDefault EXCEPT !.v2 = v, !.tenant = v, !.nextId = 21] : v \in BOOLEAN}

Calls ==
    {[op |-> "space_key_to_id", key |-> "DOCS"],
     [op |-> "space_id_to_key", id |-> "65537"],
     [op |-> "get_page_version", page_id |-> "101"],
     [op |-> "get_page_properties_by_title", title |-> "Guide", space_id |-> None, space_key |-> "DOCS"],
     [op |-> "update_page", page_id |-> "101", content |-> "<p>new</p>", title |-> "Guide", version |-> 2],
     [op |-> "create_page", parent_id |-> "101", title |-> "Manual", new_content |-> "<p>new</p>"],
     [op |-> "delete_page", page_id |-> "101", purge |-> TRUE],
     [op |-> "get_attachment_by_name", page_id |-> "101", filename |-> "a.png"],
     [op |-> "upload_attachment", page_id |-> "101", attachment_name |-> "a.png",
      source |-> [attachment_path |-> Absent, raw_data |-> [len |-> 20]], force |-> TRUE],
     [op |-> "update_labels", page_id |-> "101", labels |-> DocsWiki, keep_existing |-> FALSE],
     [op |-> "update_content_properties_for_page", page_id |-> "101",
      props |-> <<ConfluenceContentProperty("author", "ann"), ConfluenceContentProperty("build", "ann")>>,
      keep_existing |-> FALSE]}

\* the method of ConfluenceSession a call names, applied to its arguments
Invoke(w, c) ==
    CASE c.op = "space_key_to_id" -> space_key_to_id(w, c.key)
      [] c.op = "space_id_to_key" -> space_id_to_key(w, c.id)
      [] c.op = "get_page_version" -> get_page_version(w, c.page_id)
      [] c.op = "get_page_properties_by_title" ->
            get_page_properties_by_title(w, c.title, c.space_id, c.space_key)
      [] c.op = "update_page" -> update_page(w, c.page_id, c.content, c.title, c.version)
      [] c.op = "create_page" -> create_page(w, c.parent_id, c.title, c.new_content)
      [] c.op = "delete_page" -> delete_page(w, c.page_id, c.purge)
      [] c.op = "get_attachment_by_name" -> get_attachment_by_name(w, c.page_id, c.filename)
      [] c.op = "upload_attachment" ->
            upload_attachment(w, c.page_id, c.attachment_name, c.source.attachment_path,
                              c.source.raw_data, None, None, c.force)
      [] c.op = "update_labels" -> update_labels(w, c.page_id, c.labels, c.keep_existing)
      [] c.op = "update_content_properties_for_page" ->
            update_content_properties_for_page(w, c.page_id, c.props, c.keep_existing)

InitLife ==
    /\ input \in LifeInputs
    /\ remote \in LifeRemotes
    /\ session = "none"
    /\ api_version = None
    /\ api_url = NoUrl
    /\ site = NoSite
    /\ _space_id_to_key = EmptyMap
    /\ _space_key_to_id = EmptyMap
    /\ properties = Unset
    /\ call = NoCall
    /\ log = <<>>
    /\ ret = NoRet

\* any method of the open session, called with a request budget
Operation ==
    /\ session = "open"
    /\ \E c \in Calls, fuel \in 0..MaxFuel :
        /\ c.op = "upload_attachment" =>
                \A i \in DOMAIN remote.attachments["101"] : remote.attachments["101"][i].version < MaxVersion
        /\ remote.nextId < 21 + MaxAllocations
        /\ call' = c
        /\ Finish(Invoke(Start(fuel), c))

NextLife == Configure \/ Open \/ Operation \/ Close

SpecLife == InitLife /\ [][NextLife]_vars

\* C21: api_version and api_url are assigned while the session is constructed
\* and never change afterwards: no operation, whether it succeeds or fails,
\* and no close() alters either field of a constructed session.
C21_FieldsKept == session # "none" => (api_version' = api_version /\ api_url' = api_url)

C21_VersionAndRootFixed == [][C21_FieldsKept]_vars

\* an operation of a constructed legacy session failed on a request
C21_Witness ==
    /\ session = "open" /\ api_version = VERSION_1 /\ api_url = ClassicRoot("host", "/wiki/")
    /\ call.op = "update_labels" /\ ~ret.ok /\ Len(log) = 2

\* C27: a session that resolved the legacy generation never sends a request to
\* an api/v2 endpoint: not while it is constructed, and in no operation that
\* follows (listings, space lookups, page operations, labels, properties,
\* attachments), whether the operation succeeds or fails.
C27_LegacyStaysLegacy ==
    api_version = VERSION_1 => \A i \in DOMAIN log : log[i].api = VERSION_1

\* a legacy session listed the labels of a page and added some
C27_Witness ==
    /\ session = "open" /\ api_version = VERSION_1
    /\ call.op = "update_labels" /\ ret.ok
    /\ Len(log) = 2 /\ log[1].method = "GET" /\ log[2].method = "POST"

\* C28: under the legacy generation get_attachment_by_name returns the domain
\* attachment whenever exactly one attachment of the page has the file name:
\* the call does not raise, and what it returns has the id, the title and the
\* size of that attachment.
C28_LegacyAttachmentReturned ==
    (/\ api_version = VERSION_1
     /\ call.op = "get_attachment_by_name"
     /\ log # <<>> /\ log[Len(log)].ok) =>
        \A a \in Range(remote.attachments[call.page_id]) :
            (\A b \in Range(remote.attachments[call.page_id]) : b.title = call.filename <=> b = a) =>
                /\ ret.ok
                /\ ret.val.id = a.id /\ ret.val.title = a.title /\ ret.val.fileSize = a.fileSize

\* what the service holds after it served the requests of l that succeeded
RECURSIVE Replay(_, _)

Replay(r, l) ==
    IF l = <<>> THEN r
    ELSE Replay(IF Head(l).ok THEN Serve(r, Head(l)).remote ELSE r, Tail(l))

\* C29: no operation of an open session retries a failed request.  A request
\* that fails inside an operation is the last request of the operation, which
\* raises the failure at once; what the requests before it changed on the
\* service stays changed.
C29_Step ==
    call'.op \notin {"ConfluenceConnectionProperties", "ConfluenceSession", "close"} =>
        /\ \A i \in DOMAIN log' :
                ~log'[i].ok => (i = Len(log') /\ ~ret'.ok /\ ret'.exc = "HTTPError")
        /\ remote' = Replay(remote, log')

C29_FailureEndsOperation == [][C29_Step]_vars

\* the third request of a reconciliation failed; the property added by the
\* second is on the page
C29_Witness ==
    /\ session = "open"
    /\ call.op = "update_content_properties_for_page" /\ ~ret.ok
    /\ Len(log) = 3 /\ log[2].method = "POST" /\ log[2].ok /\ ~log[3].ok
    /\ Len(remote.props["101"]) = 1

\* C30: within one call of upload_attachment, an upload POST that succeeds is
\* followed by exactly one PUT, the last request of the call, which gives the
\* attachment the name the caller supplied as its title and carries the
\* version number of the upload response plus one; no PUT is sent without
\* such a POST, and a call that finds the attachment up to date (same size,
\* force not set) sends neither.
C30_Step ==
    call'.op = "upload_attachment" =>
        /\ Count(log', "POST") <= 1
        /\ \A i \in DOMAIN log' :
            (log'[i].method = "POST" /\ log'[i].ok) =>
                /\ Len(log') = i + 1
                /\ log'[i + 1].method = "PUT"
                /\ log'[i + 1].body.title = call'.attachment_name
                /\ \E a \in Range(Replay(remote, SubSeq(log', 1, i)).attachments[call'.page_id]) :
                        /\ a.id = log'[i + 1].body.id
                        /\ log'[i + 1].body.version.number = a.version + 1
        /\ \A j \in DOMAIN log' :
            log'[j].method = "PUT" => (j > 1 /\ log'[j - 1].method = "POST" /\ log'[j - 1].ok)
        /\ (/\ ~call'.force
            /\ (call'.source.attachment_path = Absent) # (call'.source.raw_data = Absent)
            /\ \E a \in Range(remote.attachments[call'.page_id]) :
                    a.title = call'.attachment_name /\ a.fileSize = Supplied(call'.source))
                => Writes(log') = <<>>

C30_UploadThenTitle == [][C30_Step]_vars

\* an upload under a name with a path component went through, title re-asserted
C30_Witness ==
    /\ call.op = "upload_attachment" /\ call.attachment_name = "img/b.png" /\ ret.ok
    /\ Len(log) = 3 /\ log[2].method = "POST" /\ log[3].method = "PUT" /\ log[3].ok
    /\ log[3].body.title = "img/b.png" /\ log[3].body.version.number = 2
    /\ \E a \in Range(remote.attachments["101"]) : a.title = "img/b.png" /\ a.version = 2

(***************************************************************************)
(* SpecLookup: the lookups that need exactly one match, on an open session *)
(* of either generation.  Page 101 has no attachment, one a.png or two of  *)
(* that title; "Guide" is the title of one page, or of a page in each of   *)
(* the two spaces.                                                         *)
(***************************************************************************)
Attachment(id, title) == [id |-> id, title |-> title, fileSize |-> 10, mediaType |-> "image/png", version |-> 1]

FoundAttachments ==
    {<<>>, <<Attachment("att1", "a.png")>>, <<Attachment("att1", "a.png"), Attachment("att2", "a.png")>>}

FoundPages ==
    {[p \in PageIds |-> Page("Guide", "<p>old</p>", 1)],
     [p \in PageIds \cup {"102"} |->
        IF p = "102" THEN [Page("Guide", "<p>old</p>", 1) EXCEPT !.spaceId = Space2.id]
        ELSE Page("Guide", "<p>old</p>", 1)]}

SpaceArguments ==
    {[space_id |-> None, space_key |-> None], [space_id |-> None, space_key |-> "DOCS"],
     [space_id |-> "65537", space_key |-> None], [space_id |-> "65537", space_key |-> "DOCS"]}

InitLookup ==
    /\ input = [none |-> None]
    /\ \E version \in {VERSION_1, VERSION_2}, found \in FoundAttachments, pages \in FoundPages :
        /\ OpenSession(version, ClassicRoot("host", "/wiki/"))
        /\ remote = [RemoteDefault EXCEPT !.v2 = (version = VERSION_2), !.nextId = 3,
                                          !.attachments = [p \in PageIds |-> found],
                                          !.pages = pages]

GetPagePropertiesByTitle ==
    \E title \in Titles, space \in SpaceArguments, fuel \in 0..MaxFuel :
        /\ call' = [op |-> "get_page_properties_by_title", title |-> title, space_id |-> space.space_id,
                    space_key |-> space.space_key, fuel |-> fuel]
        /\ Finish(get_page_properties_by_title(Start(fuel), title, space.space_id, space.space_key))

NextLookup == GetAttachmentByName \/ GetPagePropertiesByTitle \/ SpaceKeyToId

SpecLookup == InitLookup /\ [][NextLookup]_vars

\* the service answered the listing request of the lookup
Listed ==
    /\ log # <<>>
    /\ log[Len(log)].ok /\ log[Len(log)].method = "GET"
    /\ "title" \in DOMAIN log[Len(log)].query \/ "filename" \in DOMAIN log[Len(log)].query

\* what the service holds that matches the arguments of the lookup
Matches ==
    IF call.op = "get_attachment_by_name"
    THEN {a.id : a \in {b \in Range(remote.attachments[call.page_id]) : b.title = call.filename}}
    ELSE {id \in DOMAIN remote.pages :
            /\ remote.pages[id].title = call.title /\ remote.pages[id].status = "current"
            /\ call.space_key # None => SpaceOf(remote, remote.pages[id]).key = call.space_key
            /\ call.space_id # None => IntToStr(remote.pages[id].spaceId) = call.space_id}

\* C24: in both generations get_page_properties_by_title and
\* get_attachment_by_name raise ConfluenceError when the service returns no
\* result or more than one, and return the single match when it returns
\* exactly one.
C24_ExactlyOneMatch ==
    (call.op \in {"get_page_properties_by_title", "get_attachment_by_name"} /\ Listed) =>
        IF Cardinality(Matches) = 1
        THEN ret.ok /\ ret.val.id \in Matches
        ELSE ~ret.ok /\ ret.exc = "ConfluenceError"

(***************************************************************************)
(* SpecTitle: the two lookups by title on an open session of either        *)
(* generation, called with no space, a space id, a space key, or both.     *)
(***************************************************************************)
ExclusiveArguments == SpaceArguments \cup {[space_id |-> "98306", space_key |-> "DOCS"]}

TitleLookup ==
    \E title \in Titles, space \in ExclusiveArguments, fuel \in 0..MaxFuel :
        /\ call' = [op |-> "get_page_properties_by_title", title |-> title, space_id |-> space.space_id,
                    space_key |-> space.space_key]
        /\ Finish(get_page_properties_by_title(Start(fuel), title, space.space_id, space.space_key))

PageExists ==
    \E title \in Titles, space \in ExclusiveArguments, fuel \in 0..MaxFuel :
        /\ call' = [op |-> "page_exists", title |-> title, space_id |-> space.space_id,
                    space_key |-> space.space_key]
        /\ Finish(page_exists(Start(fuel), title, space.space_id, space.space_key))

NextTitle == TitleLookup \/ PageExists \/ SpaceKeyToId

SpecTitle == InitLookup /\ [][NextTitle]_vars

\* C38: space id and space key are mutually exclusive arguments of the title
\* lookups: get_page_properties_by_title and page_exists called with both are
\* rejected with ConfluenceError, in the legacy generation as in the modern
\* one, before any request is sent.
C38_BothRejected ==
    (/\ call.op \in {"get_page_properties_by_title", "page_exists"}
     /\ call.space_id # None /\ call.space_key # None)
        => (~ret.ok /\ ret.exc = "ConfluenceError" /\ log = <<>>)
====
